---- MODULE Spec2Model ----
(***************************************************************************)
(* A model of the HED string parser of hed-typescript: the tokenizer       *)
(* (src/src/parser/tokenizer.ts), the splitter / tree builder, the parsed  *)
(* string with its normal form, and HedStringParser.parse.                 *)
(*                                                                         *)
(* A JavaScript string is a sequence of one-character strings.  Indices    *)
(* and bounds are the code's 0-based indices; CharAt and Slice convert.    *)
(***************************************************************************)
EXTENDS Integers, Sequences, FiniteSets, TLC

----------------------------------------------------------------------------
(* Bounds of the model *)

\* Longest input string of the tokenizer specification TokSpec.
MaxLen == 4

\* The longest input string over the column-splice alphabet.
MaxSpliceLen == 6

----------------------------------------------------------------------------
(* JavaScript string helpers *)

\* src/src/parser/tokenizer.ts:11 CHARACTERS
BLANK == " "
OPENING_GROUP == "("
CLOSING_GROUP == ")"
OPENING_COLUMN == "{"
CLOSING_COLUMN == "}"
COMMA == ","
COLON == ":"
SLASH == "/"
PLACEHOLDER == "#"

\* The value of a field that is undefined in the code.
UNDEFINED == "undefined"

\* The characters of the tokenizer specification: a letter, a digit, the
\* blank, the seven delimiters, the placeholder and one invalid character.
Letters == {"a"}
Digits == {"1"}
InvalidChars == {"~"}
TokAlphabet ==
  Letters \cup Digits \cup InvalidChars \cup
  {BLANK, OPENING_GROUP, CLOSING_GROUP, OPENING_COLUMN, CLOSING_COLUMN,
   COMMA, COLON, SLASH, PLACEHOLDER}

\* The characters of the inputs that exercise column splices.
SpliceAlphabet == {"a", OPENING_COLUMN, CLOSING_COLUMN, COMMA}

\* The letters A-Z and a-z, for /[^A-Za-z]/ and String.prototype.toLowerCase.
UPPER == <<"A", "B", "C", "D", "E", "F", "G", "H", "I", "J", "K", "L", "M",
           "N", "O", "P", "Q", "R", "S", "T", "U", "V", "W", "X", "Y", "Z">>
LOWER == <<"a", "b", "c", "d", "e", "f", "g", "h", "i", "j", "k", "l", "m",
           "n", "o", "p", "q", "r", "s", "t", "u", "v", "w", "x", "y", "z">>

IsAlpha(c) == \E k \in 1..Len(UPPER) : c = UPPER[k] \/ c = LOWER[k]

\* String.prototype.charAt with a 0-based index ("" out of range).
CharAt(s, k) == IF k >= 0 /\ k < Len(s) THEN s[k + 1] ELSE ""

\* String.prototype.slice(a, b) for 0 <= a.
Slice(s, a, b) ==
  LET e == IF b > Len(s) THEN Len(s) ELSE b
  IN  IF a >= e THEN <<>> ELSE SubSeq(s, a + 1, e)

SliceFrom(s, a) == Slice(s, a, Len(s))

\* True of white space (String.prototype.trim removes it at both ends).
IsSpace(c) == c = BLANK

\* Index (0-based) of the first non-space character, -1 if there is none:
\* originalString.search(/\S/).
FirstNonSpace(s) ==
  IF \E k \in 1..Len(s) : ~IsSpace(s[k])
    THEN (CHOOSE k \in 1..Len(s) :
            ~IsSpace(s[k]) /\ \A j \in 1..(k - 1) : IsSpace(s[j])) - 1
    ELSE -1

\* Index (0-based) of the last non-space character: search(/\S\s*$/).
LastNonSpace(s) ==
  IF \E k \in 1..Len(s) : ~IsSpace(s[k])
    THEN (CHOOSE k \in 1..Len(s) :
            ~IsSpace(s[k]) /\ \A j \in (k + 1)..Len(s) : IsSpace(s[j])) - 1
    ELSE -1

Trim(s) ==
  IF FirstNonSpace(s) = -1 THEN <<>>
  ELSE Slice(s, FirstNonSpace(s), LastNonSpace(s) + 1)

TrimStart(s) ==
  IF FirstNonSpace(s) = -1 THEN <<>> ELSE SliceFrom(s, FirstNonSpace(s))

IsBlankString(s) == Len(Trim(s)) = 0

Includes(s, c) == \E k \in 1..Len(s) : s[k] = c

StartsWith(s, c) == Len(s) > 0 /\ s[1] = c

EndsWith(s, c) == Len(s) > 0 /\ s[Len(s)] = c

\* Number of occurrences of character c in s.
RECURSIVE CountChar(_, _)
CountChar(s, c) ==
  IF Len(s) = 0 THEN 0
  ELSE (IF s[1] = c THEN 1 ELSE 0) + CountChar(Tail(s), c)

\* Index (0-based) of the first c in s, Len(s) if there is none.
RECURSIVE IndexOf(_, _)
IndexOf(s, c) ==
  IF Len(s) = 0 \/ s[1] = c THEN 0 ELSE 1 + IndexOf(Tail(s), c)

\* String.prototype.split(c): the pieces between the occurrences of c.
RECURSIVE Split(_, _)
Split(s, c) ==
  IF ~Includes(s, c) THEN <<s>>
  ELSE <<Slice(s, 0, IndexOf(s, c))>> \o Split(SliceFrom(s, IndexOf(s, c) + 1), c)

\* Array.prototype.join(sep) of a list of strings.
\* const name = value; ... : the value, computed once, under a name.
With(value, Body(_)) == Body(value)

RECURSIVE Join(_, _)
Join(parts, sep) ==
  IF Len(parts) = 0 THEN <<>>
  ELSE IF Len(parts) = 1 THEN parts[1]
  ELSE parts[1] \o sep \o Join(Tail(parts), sep)

\* All strings over alphabet of length at most n.
RECURSIVE Strings(_, _)
Strings(alphabet, n) ==
  IF n = 0 THEN {<<>>}
  ELSE LET shorter == Strings(alphabet, n - 1)
       IN  shorter \cup {Append(s, c) : s \in shorter, c \in alphabet}

----------------------------------------------------------------------------
(* Tokenizer: src/src/parser/tokenizer.ts *)

TagSpec(tag, start, end, librarySchema) ==
  [type |-> "tag", tag |-> Trim(tag), library |-> librarySchema,
   bounds |-> <<start, end>>]

ColumnSpliceSpec(name, start, end) ==
  [type |-> "splice", columnName |-> Trim(name), bounds |-> <<start, end>>]

GroupSpec(start, end, children) ==
  [bounds |-> <<start, end>>, children |-> children]

\* A nested array of the token forest (RecursiveArray<SubstringSpec>).
NestedArray(items) == [type |-> "array", items |-> items]

Issue(code, index) == [code |-> code, index |-> index]

\* new TokenizerState() followed by initializeTokenizer's root GroupSpec.
InitialTokenizerState(hed) ==
  [currentToken |-> <<>>,
   groupDepth |-> 0,
   startingIndex |-> 0,
   lastDelimiter |-> <<UNDEFINED, -1>>,
   librarySchema |-> <<>>,
   lastSlash |-> -1,
   currentGroupStack |-> << <<>> >>,
   parenthesesStack |-> << GroupSpec(0, Len(hed), <<>>) >>]

\* The tokenizer's mutable part: its TokenizerState and its issue list.
Tok(st, iss) == [state |-> st, issues |-> iss]

pushIssue(t, code, index) ==
  Tok(t.state, Append(t.issues, Issue(code, index)))

resetToken(t, i) ==
  Tok([t.state EXCEPT !.startingIndex = i + 1,
                      !.currentToken = <<>>,
                      !.librarySchema = <<>>,
                      !.lastSlash = -1],
      t.issues)

setLastDelimiter(t, kind, i) ==
  Tok([t.state EXCEPT !.lastDelimiter = <<kind, i>>], t.issues)

getTrimmedBounds(s) == <<FirstNonSpace(s), LastNonSpace(s) + 1>>

\* "" when the token's placeholders are well formed, else a message.
checkForBadPlaceholderIssues(token) ==
  LET tokenSplit == Split(token, PLACEHOLDER)
  IN  IF Len(tokenSplit) = 1 THEN ""
      ELSE IF Len(tokenSplit) > 2 THEN "only one placeholder is allowed"
      ELSE IF ~EndsWith(tokenSplit[1], SLASH)
        THEN "a placeholder must be preceded by a slash"
      ELSE IF Len(Trim(tokenSplit[2])) > 0 /\ ~StartsWith(tokenSplit[2], BLANK)
        THEN "units must be preceded by a blank"
      ELSE ""

pushTag(t, i) ==
  LET st == t.state
      bounds == getTrimmedBounds(st.currentToken)
      spec == TagSpec(st.currentToken,
                      st.startingIndex + bounds[1],
                      st.startingIndex + bounds[2],
                      st.librarySchema)
  IN  IF Len(Trim(st.currentToken)) = 0
        THEN pushIssue(t, "emptyTagFound", i)
      ELSE IF checkForBadPlaceholderIssues(st.currentToken) # ""
        THEN pushIssue(t, "invalidPlaceholder", i)
      ELSE resetToken(
             Tok([st EXCEPT !.currentGroupStack[st.groupDepth + 1] =
                               Append(@, spec)],
                 t.issues),
             i)

\* closeGroup with the closed GroupSpec put in front of its siblings.
closeGroup_ChildFirst(hed, t, i) ==
  LET st == t.state
      top == Len(st.parenthesesStack)
      groupSpec == GroupSpec(st.parenthesesStack[top].bounds[1], i + 1,
                             st.parenthesesStack[top].children)
      popped == SubSeq(st.parenthesesStack, 1, top - 1)
      iss == IF IsBlankString(Slice(hed, groupSpec.bounds[1] + 1, i))
               THEN Append(t.issues, Issue("emptyTagFound", i))
               ELSE t.issues
      gtop == Len(st.currentGroupStack)
      gpopped == SubSeq(st.currentGroupStack, 1, gtop - 1)
  IN  Tok([st EXCEPT
             !.parenthesesStack =
                [popped EXCEPT ![st.groupDepth].children = <<groupSpec>> \o @],
             !.currentGroupStack =
                [gpopped EXCEPT ![st.groupDepth] =
                   Append(@, NestedArray(st.currentGroupStack[gtop]))],
             !.groupDepth = st.groupDepth - 1],
          iss)

closeGroup(hed, t, i) ==
  LET st == t.state
      top == Len(st.parenthesesStack)
      groupSpec == GroupSpec(st.parenthesesStack[top].bounds[1], i + 1,
                             st.parenthesesStack[top].children)
      popped == SubSeq(st.parenthesesStack, 1, top - 1)
      iss == IF IsBlankString(Slice(hed, groupSpec.bounds[1] + 1, i))
               THEN Append(t.issues, Issue("emptyTagFound", i))
               ELSE t.issues
      gtop == Len(st.currentGroupStack)
      gpopped == SubSeq(st.currentGroupStack, 1, gtop - 1)
  IN  Tok([st EXCEPT
             !.parenthesesStack =
                [popped EXCEPT ![st.groupDepth].children = Append(@, groupSpec)],
             !.currentGroupStack =
                [gpopped EXCEPT ![st.groupDepth] =
                   Append(@, NestedArray(st.currentGroupStack[gtop]))],
             !.groupDepth = st.groupDepth - 1],
          iss)

RECURSIVE unwindGroupStack(_, _)
unwindGroupStack(hed, t) ==
  IF t.state.groupDepth > 0
    THEN unwindGroupStack(
           hed,
           closeGroup(hed,
                      pushIssue(t, "unclosedParenthesis",
                                t.state.parenthesesStack[
                                  Len(t.state.parenthesesStack)].bounds[1]),
                      Len(hed)))
    ELSE t

\* Fault model: the empty tag is reported at the index of the previous
\* delimiter instead of the index of the comma.
handleComma_AtDelimiter(hed, t, i) ==
  LET st == t.state
      kind == st.lastDelimiter[1]
      trimmed == Trim(Slice(hed, st.lastDelimiter[2] + 1, i))
  IN  IF kind \in {OPENING_GROUP, COMMA, UNDEFINED} /\ Len(trimmed) = 0
        THEN setLastDelimiter(
               resetToken(pushIssue(t, "emptyTagFound", st.lastDelimiter[2]),
                          i),
               COMMA, i)
      ELSE IF Len(trimmed) > 0
        THEN setLastDelimiter(pushTag(t, i), COMMA, i)
      ELSE setLastDelimiter(resetToken(t, i), COMMA, i)

handleComma(hed, t, i) ==
  LET st == t.state
      kind == st.lastDelimiter[1]
      trimmed == Trim(Slice(hed, st.lastDelimiter[2] + 1, i))
      t1 == IF kind \in {OPENING_GROUP, COMMA, UNDEFINED} /\ Len(trimmed) = 0
              THEN pushIssue(t, "emptyTagFound", i)
            ELSE IF kind = OPENING_COLUMN
              THEN pushIssue(t, "unclosedCurlyBrace", st.lastDelimiter[2])
            ELSE t
      t2 == IF kind \in {CLOSING_GROUP, CLOSING_COLUMN} /\ Len(trimmed) > 0
              THEN pushIssue(t1, "invalidTag", i)
            ELSE IF Len(trimmed) > 0 THEN pushTag(t1, i)
            ELSE resetToken(t1, i)
  IN  setLastDelimiter(t2, COMMA, i)

\* The last branch before the final else can never be taken: slice(i) starts
\* with the slash itself, so its trimmed length is never 0.
handleSlash(hed, t, i) ==
  LET st == t.state
  IN  IF Len(Trim(st.currentToken)) = 0
        THEN pushIssue(t, "extraSlash", i)
      ELSE IF st.lastSlash >= 0 /\ IsBlankString(Slice(hed, st.lastSlash + 1, i))
        THEN pushIssue(t, "extraSlash", i)
      ELSE IF i > 0 /\ CharAt(hed, i - 1) = BLANK
        THEN pushIssue(t, "extraBlank", i - 1)
      ELSE IF i < Len(hed) - 1 /\ CharAt(hed, i + 1) = BLANK
        THEN pushIssue(t, "extraBlank", i + 1)
      ELSE IF IsBlankString(SliceFrom(hed, i))
        THEN pushIssue(t, "extraSlash", st.startingIndex)
      ELSE Tok([st EXCEPT !.currentToken = Append(@, SLASH), !.lastSlash = i],
               t.issues)

handleOpeningGroup(hed, t, i) ==
  LET st == t.state
      kind == st.lastDelimiter[1]
  IN  IF kind = OPENING_COLUMN
        THEN pushIssue(t, "unclosedCurlyBrace", st.lastDelimiter[2])
      ELSE IF kind = CLOSING_COLUMN
        THEN pushIssue(t, "commaMissing", st.lastDelimiter[2])
      ELSE IF kind = CLOSING_GROUP
        THEN pushIssue(t, "commaMissing", st.lastDelimiter[2] + 1)
      ELSE IF Len(Trim(st.currentToken)) > 0
        THEN pushIssue(t, "commaMissing", i)
      ELSE LET pushed ==
                 Tok([st EXCEPT
                        !.currentGroupStack = Append(@, <<>>),
                        !.parenthesesStack =
                           Append(@, GroupSpec(i, -1, <<>>))],
                     t.issues)
               reset == resetToken(pushed, i)
           IN  setLastDelimiter(
                 Tok([reset.state EXCEPT !.groupDepth = @ + 1], reset.issues),
                 OPENING_GROUP, i)

\* Fault model: a closing parenthesis with no group open is taken for the end
\* of the pending tag and the depth is decremented.
handleClosingGroup_Unchecked(hed, t, i) ==
  IF t.state.groupDepth <= 0
    THEN setLastDelimiter(
           Tok([t.state EXCEPT !.groupDepth = @ - 1], t.issues),
           CLOSING_GROUP, i)
  ELSE LET t1 == IF t.state.lastDelimiter[1] \in {OPENING_GROUP, COMMA}
                   THEN pushTag(t, i) ELSE t
       IN  setLastDelimiter(closeGroup(hed, t1, i), CLOSING_GROUP, i)

handleClosingGroup(hed, t, i) ==
  LET st == t.state
      kind == st.lastDelimiter[1]
  IN  IF st.groupDepth <= 0
        THEN pushIssue(t, "unopenedParenthesis", i)
      ELSE IF kind = OPENING_COLUMN
        THEN pushIssue(t, "unclosedCurlyBrace", st.lastDelimiter[2])
      ELSE LET t1 == IF kind \in {OPENING_GROUP, COMMA} THEN pushTag(t, i) ELSE t
           IN  setLastDelimiter(closeGroup(hed, t1, i), CLOSING_GROUP, i)

handleOpeningColumn(hed, t, i) ==
  LET st == t.state
  IN  IF Len(Trim(st.currentToken)) > 0
        THEN pushIssue(t, "invalidCharacter", i)
      ELSE IF st.lastDelimiter[1] = OPENING_COLUMN
        THEN pushIssue(t, "nestedCurlyBrace", i)
      ELSE setLastDelimiter(t, OPENING_COLUMN, i)

handleClosingColumn(hed, t, i) ==
  LET st == t.state
  IN  IF st.lastDelimiter[1] # OPENING_COLUMN
        THEN pushIssue(t, "unopenedCurlyBrace", i)
      ELSE IF Len(Trim(st.currentToken)) = 0
        THEN pushIssue(t, "emptyCurlyBrace", i)
      ELSE setLastDelimiter(
             resetToken(
               Tok([st EXCEPT !.currentGroupStack[st.groupDepth + 1] =
                      Append(@, ColumnSpliceSpec(st.currentToken,
                                                 st.lastDelimiter[2], i))],
                   t.issues),
               i),
             CLOSING_COLUMN, i)

\* /[^A-Za-z]/.test(s)
HasNonAlphabetic(s) == \E k \in 1..Len(s) : ~IsAlpha(s[k])

handleColon(hed, t, i) ==
  LET st == t.state
      trimmed == Trim(st.currentToken)
  IN  IF Len(st.librarySchema) > 0 \/ Includes(trimmed, BLANK)
         \/ Includes(trimmed, SLASH)
        THEN Tok([st EXCEPT !.currentToken = Append(@, COLON)], t.issues)
      ELSE IF HasNonAlphabetic(trimmed)
        THEN pushIssue(t, "invalidTagPrefix", i)
      ELSE LET lib == TrimStart(st.currentToken)
               reset == resetToken(t, i)
           IN  Tok([reset.state EXCEPT !.librarySchema = lib], reset.issues)

IsDelimiter(c) ==
  c \in {OPENING_GROUP, CLOSING_GROUP, OPENING_COLUMN, CLOSING_COLUMN,
         COMMA, COLON, SLASH}

\* invalidCharacters.has(character): "[", "]", "~", the double quote and the
\* control codes.
IsInvalidCharacter(c) == c \in InvalidChars

handleCharacter(hed, t, i) ==
  LET character == CharAt(hed, i)
  IN  CASE character = OPENING_GROUP -> handleOpeningGroup(hed, t, i)
        [] character = CLOSING_GROUP -> handleClosingGroup(hed, t, i)
        [] character = OPENING_COLUMN -> handleOpeningColumn(hed, t, i)
        [] character = CLOSING_COLUMN -> handleClosingColumn(hed, t, i)
        [] character = COMMA -> handleComma(hed, t, i)
        [] character = COLON -> handleColon(hed, t, i)
        [] character = SLASH -> handleSlash(hed, t, i)
        [] OTHER ->
             IF IsInvalidCharacter(character)
               THEN pushIssue(t, "invalidCharacter", i)
               ELSE Tok([t.state EXCEPT !.currentToken = Append(@, character)],
                        t.issues)

finalizeTokenizer(hed, t) ==
  LET st == t.state
      kind == st.lastDelimiter[1]
      t1 == IF kind = OPENING_COLUMN
              THEN pushIssue(t, "unclosedCurlyBrace", st.lastDelimiter[2])
            ELSE IF kind = OPENING_GROUP
              THEN pushIssue(t, "unclosedParentheses", st.lastDelimiter[2])
            ELSE IF kind = COMMA
                    /\ IsBlankString(SliceFrom(hed, st.lastDelimiter[2] + 1))
              THEN pushIssue(t, "emptyTagFound", st.lastDelimiter[2])
            ELSE IF st.lastSlash >= 0
                    /\ IsBlankString(SliceFrom(hed, st.lastSlash + 1))
              THEN pushIssue(t, "extraSlash", st.lastSlash)
            ELSE t
  IN  IF Len(Trim(st.currentToken)) > 0 /\ kind \notin {UNDEFINED, COMMA}
        THEN pushIssue(t1, "commaMissing", st.lastDelimiter[2] + 1)
      ELSE unwindGroupStack(
             hed,
             IF Len(Trim(st.currentToken)) > 0 THEN pushTag(t1, Len(hed)) ELSE t1)

\* The tuple tokenize() returns: the token forest, the root GroupSpec (NULL
\* on failure) and the issues.
NULL == [null |-> TRUE]

TokenizeResult(t) ==
  IF Len(t.issues) > 0
    THEN [tagSpecs |-> <<>>, groupBounds |-> NULL, issues |-> t.issues]
    ELSE [tagSpecs |-> t.state.currentGroupStack[Len(t.state.currentGroupStack)],
          groupBounds |-> t.state.parenthesesStack[Len(t.state.parenthesesStack)],
          issues |-> <<>>]

\* Fault model: a loop that goes on to the next character whatever the
\* issue list holds.
LoopExit_Never(iss) == FALSE

\* The loop of tokenize() returns as soon as a handled character has left an
\* issue; otherwise it goes on to the next character.
LoopExit(iss) == Len(iss) > 0

\* The loop of tokenize() from index k on, and what tokenize() returns.
RECURSIVE tokenizeFrom(_, _, _)
tokenizeFrom(hed, t, k) ==
  IF k >= Len(hed) THEN TokenizeResult(finalizeTokenizer(hed, t))
  ELSE With(handleCharacter(hed, t, k), LAMBDA handled :
         IF LoopExit(handled.issues)
           THEN [tagSpecs |-> <<>>, groupBounds |-> NULL,
                 issues |-> handled.issues]
           ELSE tokenizeFrom(hed, handled, k + 1))

\* HedStringTokenizer.tokenize
tokenize(hed) ==
  IF IsBlankString(hed)
    THEN [tagSpecs |-> <<>>, groupBounds |-> NULL,
          issues |-> <<Issue("emptyTagFound", 0)>>]
    ELSE tokenizeFrom(hed, Tok(InitialTokenizerState(hed), <<>>), 0)

----------------------------------------------------------------------------
(* The schema the strings are parsed against.  The schema loader and the    *)
(* schema entry classes are external to the parser; the tags below are a    *)
(* small schema in the shape SchemaParser builds: entries keyed by the      *)
(* lower-cased short name, each with its parent, its boolean attributes and *)
(* the value tag ("#" child) it may have.                                   *)

\* String.prototype.toLowerCase on one character.
LowerChar(c) ==
  IF \E k \in 1..Len(UPPER) : UPPER[k] = c
    THEN LOWER[CHOOSE k \in 1..Len(UPPER) : UPPER[k] = c]
    ELSE c

ToLowerCase(s) == [k \in 1..Len(s) |-> LowerChar(s[k])]

\* A character that is canonically equivalent to "K" and is a different code
\* unit: U+212A KELVIN SIGN.
KELVIN_SIGN == "U+212A"

NO_PARENT == "none"

\* The tags of the schema: short name, its characters, the parent's short
\* name, the boolean attributes (inherited ones included), and the value tag
\* with its attributes and value classes when the tag takes a value.
SchemaTags ==
  { [name |-> "Event", text |-> <<"E", "v", "e", "n", "t">>, parent |-> NO_PARENT,
     attributes |-> {}, takesValue |-> FALSE,
     valueAttributes |-> {}, valueClasses |-> <<>>],
    [name |-> "Item", text |-> <<"I", "t", "e", "m">>, parent |-> NO_PARENT,
     attributes |-> {"extensionAllowed"}, takesValue |-> FALSE,
     valueAttributes |-> {}, valueClasses |-> <<>>],
    [name |-> "Object", text |-> <<"O", "b", "j", "e", "c", "t">>, parent |-> "Item",
     attributes |-> {"extensionAllowed"}, takesValue |-> FALSE,
     valueAttributes |-> {}, valueClasses |-> <<>>],
    [name |-> "Label", text |-> <<"L", "a", "b", "e", "l">>, parent |-> NO_PARENT,
     attributes |-> {}, takesValue |-> TRUE,
     valueAttributes |-> {}, valueClasses |-> <<"nameClass">>],
    [name |-> "Def", text |-> <<"D", "e", "f">>, parent |-> NO_PARENT,
     attributes |-> {"requireChild", "reserved"}, takesValue |-> TRUE,
     valueAttributes |-> {}, valueClasses |-> <<"nameClass">>],
    [name |-> "Def-expand", text |-> <<"D", "e", "f", "-", "e", "x", "p", "a", "n", "d">>, parent |-> NO_PARENT,
     attributes |-> {"requireChild", "reserved", "tagGroup"},
     takesValue |-> TRUE,
     valueAttributes |-> {}, valueClasses |-> <<"nameClass">>],
    [name |-> "Definition", text |-> <<"D", "e", "f", "i", "n", "i", "t", "i", "o", "n">>, parent |-> NO_PARENT,
     attributes |-> {"requireChild", "reserved", "topLevelTagGroup"},
     takesValue |-> TRUE,
     valueAttributes |-> {}, valueClasses |-> <<"nameClass">>],
    [name |-> "Note", text |-> <<"N", "o", "t", "e">>, parent |-> NO_PARENT,
     attributes |-> {}, takesValue |-> TRUE,
     valueAttributes |-> {}, valueClasses |-> <<>>],
    [name |-> "Onset", text |-> <<"O", "n", "s", "e", "t">>, parent |-> NO_PARENT,
     attributes |-> {"reserved", "topLevelTagGroup"}, takesValue |-> FALSE,
     valueAttributes |-> {}, valueClasses |-> <<>>],
    [name |-> "Inset", text |-> <<"I", "n", "s", "e", "t">>, parent |-> NO_PARENT,
     attributes |-> {"reserved", "topLevelTagGroup"}, takesValue |-> FALSE,
     valueAttributes |-> {}, valueClasses |-> <<>>],
    [name |-> "Offset", text |-> <<"O", "f", "f", "s", "e", "t">>, parent |-> NO_PARENT,
     attributes |-> {"reserved", "topLevelTagGroup"}, takesValue |-> FALSE,
     valueAttributes |-> {}, valueClasses |-> <<>>],
    [name |-> "Delay", text |-> <<"D", "e", "l", "a", "y">>, parent |-> NO_PARENT,
     attributes |-> {"requireChild", "reserved", "topLevelTagGroup"},
     takesValue |-> TRUE,
     valueAttributes |-> {}, valueClasses |-> <<"nameClass">>],
    [name |-> "Duration", text |-> <<"D", "u", "r", "a", "t", "i", "o", "n">>, parent |-> NO_PARENT,
     attributes |-> {"requireChild", "reserved", "topLevelTagGroup"},
     takesValue |-> TRUE,
     valueAttributes |-> {}, valueClasses |-> <<"nameClass">>] }

SchemaTag(name) == CHOOSE e \in SchemaTags : e.name = name

\* HedSchemas.getSchema: the prefixes that have a schema, "" being the base
\* schema.  Every schema of the model holds the tags above.
SchemaPrefixes == {<<>>, <<"x">>}

getSchema(prefix) == [prefix |-> prefix, defined |-> prefix \in SchemaPrefixes]

\* A resolved schema tag: the entry called name, or its value tag.
Entry(name, isValueTag) == [name |-> name, isValueTag |-> isValueTag]

\* The undefined that stands where no schema tag has been found.
UndefinedEntry == Entry(UNDEFINED, FALSE)

\* SchemaEntryManager.getEntry on the tags, for a lower-cased tag level.
getEntry(tagLevel) ==
  IF \E e \in SchemaTags : ToLowerCase(e.text) = tagLevel
    THEN Entry((CHOOSE e \in SchemaTags : ToLowerCase(e.text) = tagLevel).name,
               FALSE)
    ELSE UndefinedEntry

\* SchemaEntry.hasAttribute.
hasAttribute(entry, attribute) ==
  IF entry.isValueTag
    THEN attribute \in SchemaTag(entry.name).valueAttributes
    ELSE attribute \in SchemaTag(entry.name).attributes

\* SchemaTag.longName: the names from the root of the schema to the tag.
RECURSIVE longName(_)
longName(name) ==
  IF SchemaTag(name).parent = NO_PARENT THEN SchemaTag(name).text
  ELSE longName(SchemaTag(name).parent) \o <<SLASH>> \o SchemaTag(name).text

\* SchemaTag.extend and SchemaTag.longExtend; a value tag extends its parent.
extend(entry, extension) ==
  IF Len(extension) > 0
    THEN SchemaTag(entry.name).text \o <<SLASH>> \o extension
    ELSE SchemaTag(entry.name).text

longExtend(entry, extension) ==
  IF Len(extension) > 0
    THEN longName(entry.name) \o <<SLASH>> \o extension
    ELSE longName(entry.name)

\* The characters of the name class: word characters, the hyphen and the
\* characters beyond ASCII.
IsNameCharacter(c) ==
  IsAlpha(c) \/ c \in Digits \/ c \in {"-", "_"} \/ c = KELVIN_SIGN

\* SchemaValueClass.validateValue.
validateValue(valueClass, value) ==
  /\ valueClass = "nameClass"
  /\ Len(value) > 0
  /\ \A k \in 1..Len(value) : IsNameCharacter(value[k])

----------------------------------------------------------------------------
(* Reserved tags: the requirements ReservedChecker reads from               *)
(* data/json/reservedTags.json, for the reserved tags of the schema above.  *)

NO_LIMIT == -1

reservedMap ==
  [n \in {"Definition", "Def", "Def-expand", "Onset", "Inset", "Offset",
          "Delay", "Duration"} |->
     [name |-> n,
      noExtension |-> TRUE,
      requireValue |-> n \notin {"Onset", "Inset", "Offset"},
      topLevelTagGroup |-> n \notin {"Def", "Def-expand"},
      requiresTimeline |-> n \in {"Onset", "Inset", "Offset", "Delay"},
      requiresDef |-> n \in {"Onset", "Inset", "Offset"},
      maxNonDefSubgroups |-> IF n = "Def" THEN NO_LIMIT
                             ELSE IF n = "Offset" THEN 0 ELSE 1,
      minNonDefSubgroups |-> IF n = "Def" THEN NO_LIMIT
                             ELSE IF n = "Duration" THEN 1 ELSE 0,
      hasOtherAllowedNonDefTags |-> n # "Def",
      otherAllowedNonDefTags |->
        IF n = "Delay" THEN {"Onset", "Inset", "Offset"}
        ELSE IF n \in {"Onset", "Inset", "Offset", "Duration"} THEN {"Delay"}
        ELSE {}]]

reservedNames == DOMAIN reservedMap

\* ReservedChecker._getReservedTagsByProperty
requireValueTags == {n \in reservedNames : reservedMap[n].requireValue}
noExtensionTags == {n \in reservedNames : reservedMap[n].noExtension}
requiresDefTags == {n \in reservedNames : reservedMap[n].requiresDef}

----------------------------------------------------------------------------
(* Tag resolution: TagConverter and ParsedHedTag *)

\* An IssueError thrown by IssueError.generateAndThrow.
Thrown(code) == [thrown |-> code]

IsThrown(x) == "thrown" \in DOMAIN x

\* The name of a schema tag entry; the value tag of T is called T-#.
EntryName(entry) ==
  IF entry.isValueTag THEN entry.name \o "-#" ELSE entry.name

\* TagConverter.tagLevels
tagLevels(tagSpec) == Split(tagSpec.tag, SLASH)

\* The levels from the 0-based index start on, joined by slashes.
LevelsFrom(levels, start) ==
  Join(IF start >= Len(levels) THEN <<>>
       ELSE SubSeq(levels, start + 1, Len(levels)),
       <<SLASH>>)

\* TagConverter._getSchemaTag
getSchemaTag(tagSpec, tagLevelIndex) ==
  getEntry(ToLowerCase(tagLevels(tagSpec)[tagLevelIndex + 1]))

\* TagConverter._checkNameClass: TRUE when the level is in the name class.
checkNameClass(tagSpec, index) ==
  validateValue("nameClass", tagLevels(tagSpec)[index + 1])

\* TagConverter._checkExtensions: the code of the IssueError it throws, or
\* "" when it returns.
RECURSIVE checkExtensionsFrom(_, _)
checkExtensionsFrom(tagSpec, index) ==
  IF index >= Len(tagLevels(tagSpec)) THEN ""
  ELSE IF getSchemaTag(tagSpec, index) # UndefinedEntry
    THEN "invalidParentNode"
  ELSE IF ~checkNameClass(tagSpec, index) THEN "invalidExtension"
  ELSE checkExtensionsFrom(tagSpec, index + 1)

checkExtensions(tagSpec, tagLevelIndex) ==
  IF ~checkNameClass(tagSpec, tagLevelIndex) THEN "invalidExtension"
  ELSE checkExtensionsFrom(tagSpec, tagLevelIndex + 1)

\* _validateChildTag without the test of the parent's extensionAllowed
\* attribute.
validateChildTag_AnyParent(tagSpec, parentTag, tagLevelIndex) ==
  LET childTag == getSchemaTag(tagSpec, tagLevelIndex)
  IN  IF childTag = UndefinedEntry
        THEN IF tagLevelIndex = 0 THEN Thrown("invalidTag")
             ELSE IF checkExtensions(tagSpec, tagLevelIndex) # ""
               THEN Thrown(checkExtensions(tagSpec, tagLevelIndex))
             ELSE childTag
      ELSE IF tagLevelIndex > 0
              /\ (SchemaTag(childTag.name).parent = NO_PARENT
                  \/ Entry(SchemaTag(childTag.name).parent, FALSE) # parentTag)
        THEN Thrown("invalidParentNode")
      ELSE childTag

\* TagConverter._validateChildTag: the child entry (UndefinedEntry for an
\* extension) or what it throws.
validateChildTag(tagSpec, parentTag, tagLevelIndex) ==
  LET childTag == getSchemaTag(tagSpec, tagLevelIndex)
  IN  IF childTag = UndefinedEntry
        THEN IF tagLevelIndex = 0 THEN Thrown("invalidTag")
             ELSE IF parentTag # UndefinedEntry
                     /\ (~hasAttribute(parentTag, "extensionAllowed")
                         \/ EntryName(parentTag) \in noExtensionTags)
               THEN Thrown("invalidExtension")
             ELSE IF checkExtensions(tagSpec, tagLevelIndex) # ""
               THEN Thrown(checkExtensions(tagSpec, tagLevelIndex))
             ELSE childTag
      ELSE IF tagLevelIndex > 0
              /\ (SchemaTag(childTag.name).parent = NO_PARENT
                  \/ Entry(SchemaTag(childTag.name).parent, FALSE) # parentTag)
        THEN Thrown("invalidParentNode")
      ELSE childTag

\* TagConverter._setSchemaTag on the converter's (schemaTag, remainder).
setSchemaTag(tagSpec, found, schemaTag, remainderStartLevelIndex) ==
  LET remainder == LevelsFrom(tagLevels(tagSpec), remainderStartLevelIndex)
  IN  IF found.schemaTag # UndefinedEntry THEN found
      ELSE IF schemaTag # UndefinedEntry
              /\ hasAttribute(schemaTag, "requireChild")
              /\ Len(remainder) = 0
        THEN Thrown("childRequired")
      ELSE [schemaTag |-> schemaTag, remainder |-> remainder]

\* The loop of TagConverter.convert from tagLevelIndex on.
RECURSIVE convertFrom(_, _, _, _)
convertFrom(tagSpec, tagLevelIndex, parentTag, found) ==
  IF tagLevelIndex >= Len(tagLevels(tagSpec))
    THEN setSchemaTag(tagSpec, found, parentTag, Len(tagLevels(tagSpec)) + 1)
  ELSE IF parentTag # UndefinedEntry /\ SchemaTag(parentTag.name).takesValue
    THEN setSchemaTag(tagSpec, found, Entry(parentTag.name, TRUE),
                      tagLevelIndex)
  ELSE With(validateChildTag(tagSpec, parentTag, tagLevelIndex),
            LAMBDA childTag :
         IF IsThrown(childTag) THEN childTag
         ELSE With(IF childTag = UndefinedEntry
                     THEN setSchemaTag(tagSpec, found, parentTag,
                                       tagLevelIndex)
                     ELSE found,
                   LAMBDA next :
                IF IsThrown(next) THEN next
                ELSE convertFrom(tagSpec, tagLevelIndex + 1, childTag, next)))

\* TagConverter.convert: [schemaTag, remainder] or the IssueError thrown.
convert(tagSpec) ==
  convertFrom(tagSpec, 0, UndefinedEntry,
              [schemaTag |-> UndefinedEntry, remainder |-> <<>>])

TWO_LEVEL_TAGS == {"Definition", "Def", "Def-expand"}

\* A string field that is undefined or null.
NO_STRING == <<UNDEFINED>>

\* allowedRegEx = /^[^{},]*$/
allowedRegEx(value) ==
  \A k \in 1..Len(value) :
    value[k] \notin {OPENING_COLUMN, CLOSING_COLUMN, COMMA}

\* ParsedHedTag._getSplitValue for a tag whose schemaTag is the entry called
\* name: <<value, rest>>.
getSplitValue(name, remainder) ==
  IF name \notin TWO_LEVEL_TAGS THEN <<remainder, NO_STRING>>
  ELSE <<Split(remainder, SLASH)[1],
         Join(Tail(Split(remainder, SLASH)), <<SLASH>>)>>

\* ParsedHedTag._separateUnits: <<actualUnit, actualUnitString,
\* actualValueString>>.  No tag of the schema has a unit class, so the loop
\* over the unit classes has nothing to probe.
separateUnits(schemaTag, remainder) == <<NO_STRING, NO_STRING, remainder>>

\* ParsedHedTag.checkValue: TRUE when the error message is empty.  (The test
\* of this.takesValue at its head tests a method and never fails.)
checkValue(schemaTag, value) ==
  LET valueClassNames == SchemaTag(schemaTag.name).valueClasses
  IN  IF value = <<PLACEHOLDER>> THEN TRUE
      ELSE IF Len(valueClassNames) = 0 THEN allowedRegEx(value)
      ELSE \E k \in 1..Len(valueClassNames) :
             validateValue(valueClassNames[k], value)

\* ParsedHedTag._handleRemainder: the fields it sets, or what it throws.
handleRemainder(schemaTag, remainder) ==
  LET split == getSplitValue(schemaTag.name, remainder)
      units == separateUnits(schemaTag, split[1])
  IN  IF ~schemaTag.isValueTag
        THEN [value |-> NO_STRING, splitValue |-> NO_STRING,
              units |-> NO_STRING]
      ELSE IF (hasAttribute(schemaTag, "requireChild")
                 \/ EntryName(schemaTag) \in requireValueTags)
              /\ Len(remainder) = 0
        THEN Thrown("valueRequired")
      ELSE IF units[1] = NO_STRING /\ units[2] # NO_STRING
        THEN Thrown("unitClassInvalidUnit")
      ELSE IF ~checkValue(schemaTag, units[3]) THEN Thrown("invalidValue")
      ELSE [value |-> units[3], splitValue |-> split[2], units |-> units[2]]

\* ParsedHedTag.format on the fields of a tag.
formatTag(schema, schemaTag, remainder, long) ==
  LET tagName == IF long THEN longExtend(schemaTag, remainder)
                         ELSE extend(schemaTag, remainder)
  IN  IF Len(schema) > 0 THEN schema \o <<COLON>> \o tagName ELSE tagName

\* new ParsedHedTag(tagSpec, hedSchemas): the tag, or what the constructor
\* throws.
ParsedHedTag(tagSpec) ==
  With(getSchema(tagSpec.library), LAMBDA schema :
    IF ~schema.defined
      THEN IF Len(tagSpec.library) > 0 THEN Thrown("unmatchedLibrarySchema")
                                       ELSE Thrown("unmatchedBaseSchema")
    ELSE With(convert(tagSpec), LAMBDA converted :
      IF IsThrown(converted) THEN converted
      ELSE With(handleRemainder(converted.schemaTag, converted.remainder),
                LAMBDA rest :
        IF IsThrown(rest) THEN rest
        ELSE With(longExtend(converted.schemaTag, converted.remainder),
                  LAMBDA canonicalTag :
          [type |-> "tag",
           originalTag |-> tagSpec.tag,
           originalBounds |-> tagSpec.bounds,
           schema |-> schema.prefix,
           schemaTag |-> converted.schemaTag,
           remainder |-> converted.remainder,
           value |-> rest.value,
           splitValue |-> rest.splitValue,
           units |-> rest.units,
           canonicalTag |-> canonicalTag,
           formattedTag |-> ToLowerCase(canonicalTag),
           normalized |-> formatTag(schema.prefix, converted.schemaTag,
                                    converted.remainder, FALSE)]))))

\* ParsedHedTag.schemaTag: the name of the schema tag, the parent's for a
\* value tag.
schemaTagName(tag) == tag.schemaTag.name

\* ParsedHedTag.isExtended, ParsedHedTag.isDeprecated
isExtended(tag) == ~tag.schemaTag.isValueTag /\ Len(tag.remainder) > 0

isDeprecated(tag) == hasAttribute(Entry(tag.schemaTag.name, FALSE), "deprecatedFrom")

\* new ParsedHedColumnSplice(columnName, bounds)
ParsedHedColumnSplice(columnName, bounds) ==
  [type |-> "splice",
   originalTag |-> columnName,
   originalBounds |-> bounds,
   normalized |-> <<OPENING_COLUMN>> \o columnName \o <<CLOSING_COLUMN>>]

----------------------------------------------------------------------------
(* Orders on strings: Array.prototype.sort and String.prototype.localeCompare *)

\* The double quote, the backslash and the backtick; no string of the model
\* holds one.
QUOTE == "U+0022"
BACKSLASH == "U+005C"
BACKTICK == "U+0060"

\* The printable ASCII characters in the order of their code units, 32..126.
ASCII ==
  <<" ", "!", QUOTE, "#", "$", "%", "&", "'", "(", ")", "*", "+", ",", "-",
    ".", "/", "0", "1", "2", "3", "4", "5", "6", "7", "8", "9", ":", ";",
    "<", "=", ">", "?", "@", "A", "B", "C", "D", "E", "F", "G", "H", "I",
    "J", "K", "L", "M", "N", "O", "P", "Q", "R", "S", "T", "U", "V", "W",
    "X", "Y", "Z", "[", BACKSLASH, "]", "^", "_", BACKTICK, "a", "b", "c", "d", "e",
    "f", "g", "h", "i", "j", "k", "l", "m", "n", "o", "p", "q", "r", "s",
    "t", "u", "v", "w", "x", "y", "z", "{", "|", "}", "~">>

FIRST_PRINTABLE == 32

KELVIN_SIGN_CODE == 8490

\* The UTF-16 code unit of a character.
CodeUnit(c) ==
  IF c = KELVIN_SIGN THEN KELVIN_SIGN_CODE
  ELSE FIRST_PRINTABLE - 1 + CHOOSE k \in 1..Len(ASCII) : ASCII[k] = c

\* a comes before b in the lexicographic order of two lists of numbers.
RECURSIVE LexLess(_, _)
LexLess(a, b) ==
  IF Len(b) = 0 THEN FALSE
  ELSE IF Len(a) = 0 THEN TRUE
  ELSE IF a[1] # b[1] THEN a[1] < b[1]
  ELSE LexLess(Tail(a), Tail(b))

\* The default comparison of Array.prototype.sort: by code units.
CodeUnitLess(a, b) ==
  LexLess([k \in 1..Len(a) |-> CodeUnit(a[k])],
          [k \in 1..Len(b) |-> CodeUnit(b[k])])

\* The characters in the order of the primary weights of the root collation
\* (letters stand for both cases).
COLLATION ==
  <<" ", "_", "-", ",", ";", ":", "!", "?", ".", "'", QUOTE, "(", ")", "[",
    "]", "{", "}", "@", "*", "/", BACKSLASH, "&", "#", "%", BACKTICK, "^", "+", "<",
    "=", ">", "|", "~", "$", "0", "1", "2", "3", "4", "5", "6", "7", "8",
    "9", "a", "b", "c", "d", "e", "f", "g", "h", "i", "j", "k", "l", "m",
    "n", "o", "p", "q", "r", "s", "t", "u", "v", "w", "x", "y", "z">>

\* The character a collation element is looked up by: canonically equivalent
\* characters share it.
CanonicalChar(c) == IF c = KELVIN_SIGN THEN "K" ELSE c

PrimaryWeight(c) ==
  CHOOSE k \in 1..Len(COLLATION) : COLLATION[k] = LowerChar(CanonicalChar(c))

TertiaryWeight(c) ==
  IF LowerChar(CanonicalChar(c)) # CanonicalChar(c) THEN 1 ELSE 0

\* a.localeCompare(b) < 0: primary weights first, the case after them.
\* Canonically equivalent strings compare as equal.
LocaleLess(a, b) ==
  LET pa == [k \in 1..Len(a) |-> PrimaryWeight(a[k])]
      pb == [k \in 1..Len(b) |-> PrimaryWeight(b[k])]
  IN  \/ LexLess(pa, pb)
      \/ /\ pa = pb
         /\ LexLess([k \in 1..Len(a) |-> TertiaryWeight(a[k])],
                    [k \in 1..Len(b) |-> TertiaryWeight(b[k])])

\* The comparison a sort uses: "locale" for localeCompare, else code units.
Before(order, a, b) ==
  IF order = "locale" THEN LocaleLess(a, b) ELSE CodeUnitLess(a, b)

\* x inserted into the sorted list after the items that do not come after it.
InsertSorted(order, sorted, x) ==
  LET later == {k \in 1..Len(sorted) : Before(order, x, sorted[k])}
      at == IF later = {} THEN Len(sorted) + 1
            ELSE CHOOSE k \in later : \A j \in later : k <= j
  IN  SubSeq(sorted, 1, at - 1) \o <<x>> \o SubSeq(sorted, at, Len(sorted))

\* A stable sort of a list of strings.
RECURSIVE Sorted(_, _)
Sorted(order, items) ==
  IF Len(items) = 0 THEN <<>>
  ELSE InsertSorted(order, Sorted(order, SubSeq(items, 1, Len(items) - 1)),
                    items[Len(items)])

\* Fault model: no item is ever reported as a duplicate.
getDuplicates_None(itemList) == {}

\* getDuplicates: the items that occur more than once in the list.
getDuplicates(itemList) ==
  {itemList[k] : k \in {n \in 1..Len(itemList) :
                          \E j \in 1..(n - 1) : itemList[j] = itemList[n]}}

----------------------------------------------------------------------------
(* The parse tree: ParsedHedGroup and ParsedHedString *)

\* The lists of a list of lists, concatenated (Array.prototype.flat).
RECURSIVE Flat(_)
Flat(lists) == IF Len(lists) = 0 THEN <<>> ELSE lists[1] \o Flat(Tail(lists))

\* filterByClass
filterByClass(items, classType) ==
  SelectSeq(items, LAMBDA item : item.type = classType)

\* new ParsedHedGroup(parsedHedTags, hedString, originalBounds)
ParsedHedGroup(parsedHedTags, hed, originalBounds) ==
  [type |-> "group",
   tags |-> parsedHedTags,
   originalTag |-> Slice(hed, originalBounds[1], originalBounds[2]),
   originalBounds |-> originalBounds]

\* ParsedHedGroup.topTags, topGroups, topSplices
topTags(group) == filterByClass(group.tags, "tag")
topGroups(group) == filterByClass(group.tags, "group")
topSplices(group) == filterByClass(group.tags, "splice")

\* ParsedHedGroup._getAllTags
RECURSIVE allTags(_)
allTags(group) ==
  topTags(group)
    \o Flat([k \in 1..Len(topGroups(group)) |-> allTags(topGroups(group)[k])])

\* ParsedHedGroup.tagIterator, as the list it yields.
RECURSIVE tagIterator(_)
tagIterator(group) ==
  Flat([k \in 1..Len(group.tags) |->
          IF group.tags[k].type = "tag" THEN <<group.tags[k]>>
          ELSE IF group.tags[k].type = "group" THEN tagIterator(group.tags[k])
          ELSE <<>>])

\* ParsedHedGroup.columnSpliceIterator, as the list it yields.
RECURSIVE columnSpliceIterator(_)
columnSpliceIterator(group) ==
  Flat([k \in 1..Len(group.tags) |->
          IF group.tags[k].type = "splice" THEN <<group.tags[k]>>
          ELSE IF group.tags[k].type = "group"
            THEN columnSpliceIterator(group.tags[k])
          ELSE <<>>])

\* ParsedHedGroup.subParsedGroupIterator(null), as the list it yields.
RECURSIVE subParsedGroupIterator(_)
subParsedGroupIterator(group) ==
  <<group>>
    \o Flat([k \in 1..Len(group.tags) |->
               IF group.tags[k].type = "group"
                 THEN subParsedGroupIterator(group.tags[k])
                 ELSE <<>>])

\* ParsedHedGroup._filterTopTagsByTagName
filterTopTagsByTagName(group, tagName) ==
  SelectSeq(topTags(group), LAMBDA tag : schemaTagName(tag) = tagName)

\* ParsedHedGroup._filterSubgroupsByTagName
filterSubgroupsByTagName(group, tagName) ==
  SelectSeq(topGroups(group),
            LAMBDA subgroup : Len(filterTopTagsByTagName(subgroup, tagName)) > 0)

\* The names of the tags of a list, each once, in the order of their first
\* occurrence: the keys of the Map categorizeTagsByName builds.
RECURSIVE KeysInOrder(_)
KeysInOrder(tagList) ==
  IF Len(tagList) = 0 THEN <<>>
  ELSE LET front == KeysInOrder(SubSeq(tagList, 1, Len(tagList) - 1))
           name == schemaTagName(tagList[Len(tagList)])
       IN  IF \E k \in 1..Len(front) : front[k] = name THEN front
           ELSE Append(front, name)

\* [...group.reservedTags.values()].flat(): the reserved top tags, grouped by
\* name.
reservedTags(group) ==
  LET reserved == SelectSeq(topTags(group),
                            LAMBDA tag : schemaTagName(tag) \in reservedNames)
      keys == KeysInOrder(reserved)
  IN  Flat([k \in 1..Len(keys) |->
              SelectSeq(reserved, LAMBDA tag : schemaTagName(tag) = keys[k])])

\* The fields the constructor of ParsedHedGroup derives.
defExpandTags(group) == filterTopTagsByTagName(group, "Def-expand")
definitionTags(group) == filterTopTagsByTagName(group, "Definition")
defExpandChildren(group) == filterSubgroupsByTagName(group, "Def-expand")
defTags(group) == filterTopTagsByTagName(group, "Def")
defCount(group) == Len(defTags(group)) + Len(defExpandChildren(group))
isDefinitionGroup(group) == Len(definitionTags(group)) > 0
requiresDefTag(group) ==
  SelectSeq(reservedTags(group),
            LAMBDA tag : schemaTagName(tag) \in requiresDefTags)

\* A normalized string that has been computed.
Normal(string) == [normalized |-> string]

\* The first IssueError in a list of results.
FirstThrown(results) ==
  results[CHOOSE k \in 1..Len(results) :
            IsThrown(results[k]) /\ \A j \in 1..(k - 1) : ~IsThrown(results[j])]

\* The normalized form of the items of one level: sorted, duplicates
\* rejected, joined by commas.  The top level sorts with localeCompare, a
\* group with the default order of Array.prototype.sort.
NormalizedItems(results, order) ==
  LET normalizedItems == [k \in 1..Len(results) |-> results[k].normalized]
      sortedNormalizedItems == Sorted(order, normalizedItems)
  IN  IF \E k \in 1..Len(results) : IsThrown(results[k])
        THEN FirstThrown(results)
      ELSE IF getDuplicates(sortedNormalizedItems) # {}
        THEN Thrown("duplicateTag")
      ELSE Normal(Join(sortedNormalizedItems, <<COMMA>>))

\* ParsedHedSubstring.normalized: of a tag, a column splice or, by the getter
\* of ParsedHedGroup, a group.
RECURSIVE normalized(_)
normalized(item) ==
  IF item.type # "group" THEN Normal(item.normalized)
  ELSE With(NormalizedItems(
              [k \in 1..Len(item.tags) |-> normalized(item.tags[k])],
              "codeUnits"),
            LAMBDA inner :
         IF IsThrown(inner) THEN inner
         ELSE Normal(<<OPENING_GROUP>> \o inner.normalized
                       \o <<CLOSING_GROUP>>))

\* Fault model: a group formatted without its parentheses.
RECURSIVE format_NoParentheses(_, _)
format_NoParentheses(item, long) ==
  IF item.type = "tag"
    THEN formatTag(item.schema, item.schemaTag, item.remainder, long)
  ELSE IF item.type = "splice"
    THEN <<OPENING_COLUMN>> \o item.originalTag \o <<CLOSING_COLUMN>>
  ELSE Join([k \in 1..Len(item.tags) |->
               format_NoParentheses(item.tags[k], long)],
            <<COMMA, BLANK>>)

\* ParsedHedSubstring.format: of a tag, a column splice or a group.
RECURSIVE format(_, _)
format(item, long) ==
  IF item.type = "tag"
    THEN formatTag(item.schema, item.schemaTag, item.remainder, long)
  ELSE IF item.type = "splice"
    THEN <<OPENING_COLUMN>> \o item.originalTag \o <<CLOSING_COLUMN>>
  ELSE <<OPENING_GROUP>>
         \o Join([k \in 1..Len(item.tags) |-> format(item.tags[k], long)],
                 <<COMMA, BLANK>>)
         \o <<CLOSING_GROUP>>

\* ParsedHedSubstring.equivalent: of a tag, a column splice or a group.
RECURSIVE equivalent(_, _)
equivalent(ours, theirs) ==
  IF ours.type # theirs.type THEN FALSE
  ELSE IF ours.type = "tag"
    THEN ours.formattedTag = theirs.formattedTag /\ ours.schema = theirs.schema
  ELSE IF ours.type = "splice" THEN ours.originalTag = theirs.originalTag
  ELSE /\ \A k \in 1..Len(ours.tags) :
            \E j \in 1..Len(theirs.tags) :
              equivalent(ours.tags[k], theirs.tags[j])
       /\ \A j \in 1..Len(theirs.tags) :
            \E k \in 1..Len(ours.tags) :
              equivalent(theirs.tags[j], ours.tags[k])

\* ParsedHedString._getNormalized
getNormalized(parseTree) ==
  NormalizedItems([k \in 1..Len(parseTree) |-> normalized(parseTree[k])],
                  "locale")

\* new ParsedHedString(hedString, parsedTags): the parsed string, or the
\* IssueError its constructor throws.
ParsedHedString(hed, parsedTags) ==
  With(getNormalized(parsedTags), LAMBDA normalizedString :
    IF IsThrown(normalizedString) THEN normalizedString
    ELSE [hedString |-> hed,
          parseTree |-> parsedTags,
          normalized |-> normalizedString.normalized])

\* The fields the constructor of ParsedHedString derives.
tagGroups(parsedString) == filterByClass(parsedString.parseTree, "group")
topLevelTags(parsedString) == filterByClass(parsedString.parseTree, "tag")
tags(parsedString) ==
  topLevelTags(parsedString)
    \o Flat([k \in 1..Len(tagGroups(parsedString)) |->
               tagIterator(tagGroups(parsedString)[k])])
columnSplices(parsedString) ==
  filterByClass(parsedString.parseTree, "splice")
    \o Flat([k \in 1..Len(tagGroups(parsedString)) |->
               columnSpliceIterator(tagGroups(parsedString)[k])])
topLevelGroupTags(parsedString) ==
  Flat([k \in 1..Len(tagGroups(parsedString)) |->
          topTags(tagGroups(parsedString)[k])])

\* ParsedHedString.format
formatString(parsedString, long) ==
  Join([k \in 1..Len(parsedString.parseTree) |->
          format(parsedString.parseTree[k], long)],
       <<COMMA, BLANK>>)

----------------------------------------------------------------------------
(* HedStringSplitter *)

\* generateIssue for an issue that carries no index.
NO_INDEX == -1

generateIssue(code) == Issue(code, NO_INDEX)

\* HedStringSplitter._handleIssueError.  Every error the constructor of
\* ParsedHedTag throws in the model is an IssueError.
handleIssueError(issueError) == generateIssue(issueError.thrown)

\* HedStringSplitter._createParsedTag: the parsed substring; for a tag that
\* fails to resolve the IssueError, where the code pushes the issue and
\* returns null.
createParsedTag(tagSpec) ==
  IF tagSpec.type = "tag" THEN ParsedHedTag(tagSpec)
  ELSE ParsedHedColumnSplice(tagSpec.columnName, tagSpec.bounds)

\* The issues recursiveMap(tagSpecs, _createParsedTag) pushes, in its order.
RECURSIVE createParsedTagIssues(_)
createParsedTagIssues(tagSpecs) ==
  Flat([k \in 1..Len(tagSpecs) |->
          IF tagSpecs[k].type = "array"
            THEN createParsedTagIssues(tagSpecs[k].items)
          ELSE With(createParsedTag(tagSpecs[k]), LAMBDA parsedTag :
                 IF IsThrown(parsedTag) THEN <<handleIssueError(parsedTag)>>
                 ELSE <<>>)])

\* HedStringSplitter._createParsedGroups from the k-th item on, index being
\* the number of groups met before it.
RECURSIVE createParsedGroupsFrom(_, _, _, _, _)
createParsedGroupsFrom(hed, tagSpecs, k, groupSpecs, index) ==
  IF k > Len(tagSpecs) THEN <<>>
  ELSE IF tagSpecs[k].type = "array"
    THEN <<ParsedHedGroup(
             createParsedGroupsFrom(hed, tagSpecs[k].items, 1,
                                    groupSpecs[index + 1].children, 0),
             hed, groupSpecs[index + 1].bounds)>>
           \o createParsedGroupsFrom(hed, tagSpecs, k + 1, groupSpecs,
                                     index + 1)
  ELSE With(createParsedTag(tagSpecs[k]), LAMBDA parsedTag :
         (IF IsThrown(parsedTag) THEN <<>> ELSE <<parsedTag>>)
           \o createParsedGroupsFrom(hed, tagSpecs, k + 1, groupSpecs, index))

\* HedStringSplitter._createParsedTags
createParsedTags(hed, tagSpecs, groupSpecs) ==
  createParsedGroupsFrom(hed, tagSpecs, 1, groupSpecs.children, 0)

\* HedStringSplitter.splitHedString: the parsed tags (isNull when the code
\* returns null for them) and the issues.
splitHedString(hed) ==
  IF Len(hed) = 0
    THEN [parsedTags |-> <<>>, isNull |-> FALSE, issues |-> <<>>]
  ELSE With(tokenize(hed), LAMBDA tokens :
         IF Len(tokens.issues) > 0
           THEN [parsedTags |-> <<>>, isNull |-> TRUE,
                 issues |-> tokens.issues]
         ELSE [parsedTags |-> createParsedTags(hed, tokens.tagSpecs,
                                               tokens.groupBounds),
               isNull |-> FALSE,
               issues |-> createParsedTagIssues(tokens.tagSpecs)])

----------------------------------------------------------------------------
(* DefinitionChecker *)

DEFINITION_TAGS == {"Definition", "Def", "Def-expand"}

DEF_GROUP_TAGS == {"Definition", "Def-expand"}

\* The first non-empty list of issues in a list of lists, or none.
FirstIssues(lists) ==
  IF \E k \in 1..Len(lists) : Len(lists[k]) > 0
    THEN lists[CHOOSE k \in 1..Len(lists) :
                 Len(lists[k]) > 0 /\ \A j \in 1..(k - 1) : Len(lists[j]) = 0]
    ELSE <<>>

\* DefinitionChecker._checkDefinitionContext
checkDefinitionContext(parsedString, allowDefinitions) ==
  LET definitions == SelectSeq(tags(parsedString),
                               LAMBDA tag : schemaTagName(tag) = "Definition")
      badDefTags == SelectSeq(topLevelTags(parsedString),
                              LAMBDA tag : schemaTagName(tag) \in DEF_GROUP_TAGS)
      numberDefinitionGroups ==
        Len(SelectSeq(tagGroups(parsedString), isDefinitionGroup))
  IN  IF ~allowDefinitions /\ Len(definitions) > 0
        THEN <<generateIssue("illegalDefinitionContext")>>
      ELSE IF Len(definitions) > 0 /\ Len(columnSplices(parsedString)) > 0
        THEN <<generateIssue("curlyBracesInDefinition")>>
      ELSE IF Len(badDefTags) > 0 THEN <<generateIssue("missingTagGroup")>>
      ELSE IF Len(topLevelTags(parsedString)) > 0 /\ Len(definitions) > 0
        THEN <<generateIssue("illegalInExclusiveContext")>>
      ELSE IF numberDefinitionGroups > 0
              /\ numberDefinitionGroups # Len(tagGroups(parsedString))
        THEN <<generateIssue("illegalInExclusiveContext")>>
      ELSE <<>>

\* DefinitionChecker._checkGroupSyntax
checkGroupSyntax(group, isTopGroup) ==
  LET errorTag == IF Len(definitionTags(group)) > 0
                    THEN definitionTags(group)[1]
                    ELSE defExpandTags(group)[1]
      forbiddenTags ==
        SelectSeq(allTags(group),
                  LAMBDA tag : tag # errorTag
                               /\ schemaTagName(tag) \in DEFINITION_TAGS)
  IN  IF Len(defExpandTags(group)) + Len(definitionTags(group)) = 0
        THEN <<>>
      ELSE IF schemaTagName(errorTag) = "Definition" /\ ~isTopGroup
        THEN <<generateIssue("invalidTopLevelTagGroupTag")>>
      ELSE IF Len(topTags(group)) > 1 \/ Len(topGroups(group)) > 1
        THEN <<generateIssue("invalidDefinitionGroupStructure")>>
      ELSE IF Len(forbiddenTags) > 0
        THEN <<generateIssue("invalidDefinitionForbidden")>>
      ELSE IF Len(defExpandTags(group)) > 0
              /\ Len(columnSpliceIterator(group)) > 0
        THEN <<generateIssue("curlyBracesInDefinition")>>
      ELSE <<>>

\* DefinitionChecker._checkDefinitionStructure
checkDefinitionStructure(parsedString) ==
  LET checked(topGroup) ==
        IF \A k \in 1..Len(allTags(topGroup)) :
             schemaTagName(allTags(topGroup)[k]) \in DEF_GROUP_TAGS
          THEN <<>>
          ELSE [k \in 1..Len(subParsedGroupIterator(topGroup)) |->
                  checkGroupSyntax(subParsedGroupIterator(topGroup)[k], k = 1)]
  IN  FirstIssues(Flat([k \in 1..Len(tagGroups(parsedString)) |->
                          checked(tagGroups(parsedString)[k])]))

\* DefinitionChecker.check
checkDefinitions(parsedString, allowDefinitions) ==
  IF Len(SelectSeq(tags(parsedString),
                   LAMBDA tag : schemaTagName(tag) \in DEF_GROUP_TAGS)) = 0
    THEN <<>>
  ELSE IF Len(checkDefinitionContext(parsedString, allowDefinitions)) > 0
    THEN checkDefinitionContext(parsedString, allowDefinitions)
  ELSE checkDefinitionStructure(parsedString)

----------------------------------------------------------------------------
(* ReservedChecker *)

\* ParsedHedTag.hasAttribute: of the tag's schemaTag.
tagHasAttribute(tag, attribute) ==
  hasAttribute(Entry(schemaTagName(tag), FALSE), attribute)

\* ReservedChecker.hasTopLevelTagGroupAttribute
hasTopLevelTagGroupAttribute(tag) ==
  \/ tagHasAttribute(tag, "topLevelTagGroup")
  \/ /\ schemaTagName(tag) \in reservedNames
     /\ reservedMap[schemaTagName(tag)].topLevelTagGroup

\* ReservedChecker.hasGroupAttribute
hasGroupAttribute(tag) == tagHasAttribute(tag, "tagGroup")

\* list.includes(item)
IncludesItem(list, item) == \E k \in 1..Len(list) : list[k] = item

\* ReservedChecker.checkUnique
checkUnique(parsedString) ==
  LET uniqueTags == SelectSeq(tags(parsedString),
                              LAMBDA tag : tagHasAttribute(tag, "unique"))
  IN  IF \E k \in 1..Len(uniqueTags) :
           \E j \in 1..(k - 1) :
             schemaTagName(uniqueTags[j]) = schemaTagName(uniqueTags[k])
        THEN <<generateIssue("multipleUniqueTags")>>
        ELSE <<>>

\* A mutant of checkTagGroupLevels: a bare tag is refused without full
\* validation as well.
checkTagGroupLevels_Strict(parsedString, fullValidation) ==
  LET checked(tag) ==
        IF IncludesItem(topLevelGroupTags(parsedString), tag) THEN <<>>
        ELSE IF hasTopLevelTagGroupAttribute(tag)
          THEN <<generateIssue("invalidTopLevelTagGroupTag")>>
        ELSE IF IncludesItem(topLevelTags(parsedString), tag)
                /\ hasGroupAttribute(tag) /\ fullValidation
          THEN <<generateIssue("missingTagGroup")>>
        ELSE <<>>
  IN  Flat([k \in 1..Len(tags(parsedString)) |->
              checked(tags(parsedString)[k])])

\* ReservedChecker.checkTagGroupLevels
checkTagGroupLevels(parsedString, fullValidation) ==
  LET checked(tag) ==
        IF IncludesItem(topLevelGroupTags(parsedString), tag) THEN <<>>
        ELSE IF hasTopLevelTagGroupAttribute(tag)
                /\ (~IncludesItem(topLevelTags(parsedString), tag)
                    \/ fullValidation)
          THEN <<generateIssue("invalidTopLevelTagGroupTag")>>
        ELSE IF IncludesItem(topLevelTags(parsedString), tag)
                /\ hasGroupAttribute(tag) /\ fullValidation
          THEN <<generateIssue("missingTagGroup")>>
        ELSE <<>>
  IN  Flat([k \in 1..Len(tags(parsedString)) |->
              checked(tags(parsedString)[k])])

\* ReservedChecker._checkAllowedTags
checkAllowedTags(group, reservedTag, requirements) ==
  LET otherTopTags == SelectSeq(topTags(group), LAMBDA tag : tag # reservedTag)
      \* What the loop over otherTopTags does with its k-th tag.
      repeated(k) ==
        \E j \in 1..(k - 1) :
          schemaTagName(otherTopTags[j]) = schemaTagName(otherTopTags[k])
      notAllowed(k) ==
        /\ ~(schemaTagName(otherTopTags[k]) = "Def"
               /\ Len(requiresDefTag(group)) # 0)
        /\ schemaTagName(otherTopTags[k])
             \notin requirements.otherAllowedNonDefTags
      bad == {k \in 1..Len(otherTopTags) : repeated(k) \/ notAllowed(k)}
      first == CHOOSE k \in bad : \A j \in bad : k <= j
  IN  IF ~requirements.hasOtherAllowedNonDefTags THEN <<>>
      ELSE IF ~requirements.requiresDef /\ Len(requiresDefTag(group)) = 0
              /\ defCount(group) > 0
        THEN <<generateIssue("tooManyGroupTopTags")>>
      ELSE IF bad = {} THEN <<>>
      ELSE IF repeated(first) THEN <<generateIssue("tooManyGroupTopTags")>>
      ELSE <<generateIssue("invalidGroupTopTags")>>

\* ReservedChecker._checkMinGroupCount
checkMinGroupCount(group, minLimit, defAdjustment) ==
  LET nonEmptyGroups ==
        Len(SelectSeq(topGroups(group),
                      LAMBDA subGroup : Len(allTags(subGroup)) > 0))
  IN  IF minLimit = NO_LIMIT THEN <<>>
      ELSE IF nonEmptyGroups < minLimit + defAdjustment
        THEN <<generateIssue("invalidNumberOfSubgroups")>>
      ELSE <<>>

\* ReservedChecker._checkAllowedGroups
checkAllowedGroups(group, requirements) ==
  LET defAdjustment ==
        IF Len(defExpandChildren(group)) # 0 /\ Len(requiresDefTag(group)) > 0
          THEN 1 ELSE 0
  IN  IF requirements.maxNonDefSubgroups # NO_LIMIT
         /\ Len(topGroups(group)) - defAdjustment
              > requirements.maxNonDefSubgroups
        THEN <<generateIssue("invalidNumberOfSubgroups")>>
      ELSE checkMinGroupCount(group, requirements.minNonDefSubgroups,
                              defAdjustment)

\* ReservedChecker._checkGroupRequirements
checkGroupRequirements(group, reservedTag) ==
  LET requirements == reservedMap[schemaTagName(reservedTag)]
  IN  IF Len(requiresDefTag(group)) > 0 /\ defCount(group) # 1
        THEN <<generateIssue("temporalWithWrongNumberDefs")>>
      ELSE IF Len(checkAllowedTags(group, reservedTag, requirements)) > 0
        THEN checkAllowedTags(group, reservedTag, requirements)
      ELSE checkAllowedGroups(group, requirements)

\* ReservedChecker.checkTopGroupRequirements
checkTopGroupRequirements(parsedString) ==
  LET checked(group) ==
        FirstIssues([k \in 1..Len(reservedTags(group)) |->
                       checkGroupRequirements(group, reservedTags(group)[k])])
  IN  Flat([k \in 1..Len(tagGroups(parsedString)) |->
              checked(tagGroups(parsedString)[k])])

\* ReservedChecker.checkNonTopGroups
checkNonTopGroups(parsedString) ==
  IF \E k \in 1..Len(tags(parsedString)) :
       /\ hasGroupAttribute(tags(parsedString)[k])
       /\ IncludesItem(topLevelTags(parsedString), tags(parsedString)[k])
    THEN <<generateIssue("missingTagGroup")>>
    ELSE <<>>

\* ReservedChecker.checkHedString: the issues of the first check that finds
\* any.
checkHedString(parsedString, fullValidation) ==
  FirstIssues(<<checkUnique(parsedString),
                checkTagGroupLevels(parsedString, fullValidation),
                checkTopGroupRequirements(parsedString),
                checkNonTopGroups(parsedString)>>)

----------------------------------------------------------------------------
(* HedStringParser: src/src/parser/parser.ts *)

\* The tuple parse() returns: [parsedString, errors, warnings].
Returned(parsedString, errors, warnings) ==
  [parsedString |-> parsedString, errors |-> errors, warnings |-> warnings]

\* HedStringParser._getPlaceholderCountIssues on the string to check.
getPlaceholderCountIssues(checkString, placeholdersAllowed) ==
  IF placeholdersAllowed THEN <<>>
  ELSE IF Len(Split(checkString, PLACEHOLDER)) > 1
    THEN <<generateIssue("invalidPlaceholderContext")>>
  ELSE <<>>

\* HedStringParser._getWarnings
getWarnings(parsedString) ==
  (IF \E k \in 1..Len(tags(parsedString)) : isDeprecated(tags(parsedString)[k])
     THEN <<generateIssue("deprecatedTag")>> ELSE <<>>)
    \o (IF \E k \in 1..Len(tags(parsedString)) :
             isExtended(tags(parsedString)[k])
          THEN <<generateIssue("extendedTag")>> ELSE <<>>)

\* parse(), lines 85-88: what is returned when the split has failed.
splitFailed(split) == split.isNull \/ Len(split.issues) > 0

\* Fault model: the tree is returned together with the issues of the check.
returnChecked_Anyway(parsedString, checkIssues) ==
  Returned(parsedString, checkIssues, getWarnings(parsedString))

\* parse(), lines 103-109: the tuple returned once the reserved tags have
\* been checked.
returnChecked(parsedString, checkIssues) ==
  IF Len(checkIssues) > 0 THEN Returned(NULL, checkIssues, <<>>)
  ELSE Returned(parsedString, <<>>, getWarnings(parsedString))

----------------------------------------------------------------------------
(* parseHedString as one call, and the Definition and DefinitionManager     *)
(* classes of parser/definitionManager.ts                                   *)

\* parseHedString(hedString, hedSchemas, definitionsAllowed,
\* placeholdersAllowed, fullValidation) on a string, with schemas: the tuple
\* parse() returns, or the IssueError that leaves it.
parseHedString(hed, definitionsAllowed, placeholdersAllowed, fullValidation) ==
  With(getPlaceholderCountIssues(hed, placeholdersAllowed),
       LAMBDA placeholderIssues :
    IF Len(placeholderIssues) > 0
      THEN Returned(NULL, placeholderIssues, <<>>)
    ELSE With(splitHedString(hed), LAMBDA parsed :
      IF splitFailed(parsed) THEN Returned(NULL, parsed.issues, <<>>)
      ELSE With(ParsedHedString(hed, parsed.parsedTags), LAMBDA constructed :
        IF IsThrown(constructed) THEN constructed
        ELSE With(checkDefinitions(constructed, definitionsAllowed),
                  LAMBDA definitionIssues :
          IF Len(definitionIssues) > 0
            THEN Returned(NULL, definitionIssues, <<>>)
          ELSE returnChecked(constructed,
                             checkHedString(constructed, fullValidation))))))

\* !!string for a string field that may be null or undefined.
Truthy(string) == string # NO_STRING /\ Len(string) > 0

\* The text a replacement string stands for in String.prototype.replace with
\* a string pattern: $$ is a dollar sign, $& the matched text, $` the text
\* before the match and $' the text after it.
RECURSIVE GetSubstitution(_, _, _, _)
GetSubstitution(replacement, matched, before, after) ==
  IF Len(replacement) = 0 THEN <<>>
  ELSE IF replacement[1] = "$" /\ Len(replacement) >= 2
          /\ replacement[2] \in {"$", "&", BACKTICK, "'"}
    THEN (CASE replacement[2] = "$" -> <<"$">>
            [] replacement[2] = "&" -> matched
            [] replacement[2] = BACKTICK -> before
            [] OTHER -> after)
           \o GetSubstitution(SliceFrom(replacement, 2), matched, before,
                              after)
  ELSE <<replacement[1]>>
         \o GetSubstitution(Tail(replacement), matched, before, after)

\* String.prototype.replace(pattern, replacement) for a pattern of one
\* character: the first occurrence is replaced.
replace(string, pattern, replacement) ==
  IF ~Includes(string, pattern) THEN string
  ELSE With(IndexOf(string, pattern), LAMBDA position :
         Slice(string, 0, position)
           \o GetSubstitution(replacement, <<pattern>>,
                              Slice(string, 0, position),
                              SliceFrom(string, position + 1))
           \o SliceFrom(string, position + 1))

\* A Definition object.
Definition(name, defTag, defGroup, defContents, placeholder) ==
  [name |-> name, defTag |-> defTag, defGroup |-> defGroup,
   defContents |-> defContents, placeholder |-> placeholder]

\* this.defContents?.normalized
contentsNormalized(definition) ==
  IF definition.defContents = NULL THEN NULL
  ELSE normalized(definition.defContents)

\* What evaluateDefinition and evaluateTag return: the string (NULL for
\* null, else Normal(string)) and the issues.
Evaluated(value, errors, warnings) ==
  [value |-> value, errors |-> errors, warnings |-> warnings]

\* Definition.evaluateDefinition(tag, hedSchema, placeholderAllowed); an
\* IssueError that leaves parseHedString leaves it too.
evaluateDefinition(definition, tag, placeholderAllowed) ==
  IF Truthy(definition.defTag.splitValue) # Truthy(tag.splitValue)
    THEN Evaluated(NULL,
           <<generateIssue(IF schemaTagName(tag) = "Def"
                             THEN "missingDefinitionForDef"
                             ELSE "missingDefinitionForDefExpand")>>,
           <<>>)
  ELSE IF definition.defContents = NULL THEN Evaluated(Normal(<<>>), <<>>, <<>>)
  ELSE IF ~Truthy(definition.defTag.splitValue)
          \/ (placeholderAllowed /\ tag.splitValue = <<PLACEHOLDER>>)
    THEN Evaluated(normalized(definition.defContents), <<>>, <<>>)
  ELSE With(parseHedString(replace(definition.defContents.originalTag,
                                   PLACEHOLDER, tag.splitValue),
                           FALSE, FALSE, TRUE),
            LAMBDA parsed :
         IF IsThrown(parsed) THEN parsed
         ELSE IF Len(parsed.errors) > 0
           THEN Evaluated(NULL, parsed.errors, parsed.warnings)
         ELSE Evaluated(Normal(parsed.parsedString.normalized), <<>>, <<>>))

\* Definition.equivalent(other)
definitionEquivalent(ours, theirs) ==
  IF ours.name # theirs.name
     \/ ours.defTag.splitValue # theirs.defTag.splitValue
    THEN FALSE
  ELSE IF contentsNormalized(ours) # contentsNormalized(theirs) THEN FALSE
  ELSE TRUE

\* Definition._checkDefinitionPlaceholderCount: TRUE when the message it
\* returns is empty.
checkDefinitionPlaceholderCount(definition) ==
  LET placeholderCount ==
        IF definition.defContents # NULL
          THEN Len(Split(definition.defContents.originalTag, PLACEHOLDER)) - 1
          ELSE 0
  IN  IF Truthy(definition.placeholder) /\ placeholderCount # 1 THEN FALSE
      ELSE IF ~Truthy(definition.placeholder) /\ placeholderCount # 0
        THEN FALSE
      ELSE TRUE

\* What createDefinitionFromGroup returns: the definition (NULL for null)
\* and the issues.
Created(definition, errors) == [definition |-> definition, errors |-> errors]

\* Fault model: the placeholders of the contents are not counted.
createDefinitionFromGroup_Uncounted(group) ==
  IF Len(topTags(group)) # 1 \/ schemaTagName(topTags(group)[1]) # "Definition"
    THEN Created(NULL, <<generateIssue("invalidDefinition")>>)
  ELSE Created(Definition(topTags(group)[1].value, topTags(group)[1], group,
                          IF Len(topGroups(group)) > 0
                            THEN topGroups(group)[1] ELSE NULL,
                          topTags(group)[1].splitValue),
               <<>>)

\* Definition.createDefinitionFromGroup(group)
createDefinitionFromGroup(group) ==
  IF Len(topTags(group)) # 1 \/ schemaTagName(topTags(group)[1]) # "Definition"
    THEN Created(NULL, <<generateIssue("invalidDefinition")>>)
  ELSE With(Definition(topTags(group)[1].value, topTags(group)[1], group,
                       IF Len(topGroups(group)) > 0
                         THEN topGroups(group)[1] ELSE NULL,
                       topTags(group)[1].splitValue),
            LAMBDA def :
         IF checkDefinitionPlaceholderCount(def) THEN Created(def, <<>>)
         ELSE Created(NULL, <<generateIssue("invalidPlaceholderInDefinition")>>))

\* What createDefinition returns: the definition (NULL for null), the errors
\* and the warnings.
DefinitionCreated(definition, errors, warnings) ==
  [definition |-> definition, errors |-> errors, warnings |-> warnings]

\* Definition.createDefinition(hedString, hedSchemas): the tuple it returns,
\* or what is thrown.  With no tag group, parsedString.tagGroups[0] is
\* undefined and createDefinitionFromGroup reads group.topTags of it: a
\* TypeError.
createDefinition(hed) ==
  With(parseHedString(hed, TRUE, TRUE, TRUE), LAMBDA parsed :
    IF IsThrown(parsed) THEN parsed
    ELSE IF Len(parsed.errors) > 0
      THEN DefinitionCreated(NULL, parsed.errors, parsed.warnings)
    ELSE IF Len(topLevelTags(parsed.parsedString)) # 0
      THEN DefinitionCreated(NULL, <<generateIssue("invalidDefinition")>>,
                             parsed.warnings)
    ELSE IF Len(tagGroups(parsed.parsedString)) # 1
            /\ Len(tagGroups(parsed.parsedString)) # 0
      THEN DefinitionCreated(NULL, <<generateIssue("invalidDefinition")>>,
                             parsed.warnings)
    ELSE IF Len(tagGroups(parsed.parsedString)) = 0
      THEN Thrown("TypeError")
    ELSE With(createDefinitionFromGroup(tagGroups(parsed.parsedString)[1]),
              LAMBDA created :
           DefinitionCreated(created.definition, created.errors,
                             parsed.warnings)))

\* What createDefinitions returns: the definitions and the issues.
DefinitionsCreated(defList, defIssues) ==
  [defList |-> defList, issues |-> defIssues]

\* The loop of DefinitionManager.createDefinitions from string k on.
RECURSIVE createDefinitionsFrom(_, _, _, _)
createDefinitionsFrom(defStrings, k, defList, defIssues) ==
  IF k > Len(defStrings) THEN DefinitionsCreated(defList, defIssues)
  ELSE With(createDefinition(defStrings[k]), LAMBDA next :
         IF IsThrown(next) THEN next
         ELSE createDefinitionsFrom(
                defStrings, k + 1,
                IF next.definition # NULL
                  THEN Append(defList, next.definition) ELSE defList,
                defIssues \o next.errors \o next.warnings))

\* DefinitionManager.createDefinitions(defStrings, hedSchemas)
createDefinitions(defStrings) ==
  createDefinitionsFrom(defStrings, 1, <<>>, <<>>)

\* new DefinitionManager(): the Map of the definitions, empty.
NoDefinitions == <<>>

\* What addDefinition leaves: the Map and the issues it returns.
Added(definitions, issues) == [definitions |-> definitions, issues |-> issues]

\* DefinitionManager.addDefinition(definition) on the Map definitions.
addDefinition(definitions, definition) ==
  LET lowerName == ToLowerCase(definition.name)
  IN  IF lowerName \in DOMAIN definitions
         /\ ~definitionEquivalent(definitions[lowerName], definition)
        THEN Added(definitions, <<generateIssue("conflictingDefinitions")>>)
      ELSE IF lowerName \notin DOMAIN definitions
        THEN Added(definitions @@ (lowerName :> definition), <<>>)
      ELSE Added(definitions, <<>>)

\* What findDefinition returns: the definition (NULL for null) and the
\* issues.
Found(definition, issues) == [definition |-> definition, issues |-> issues]

\* Fault model: a definition is found by its name alone.
findDefinition_ByName(definitions, tag) ==
  IF schemaTagName(tag) \notin {"Def", "Def-expand"} THEN Found(NULL, <<>>)
  ELSE IF ToLowerCase(tag.value) \notin DOMAIN definitions
    THEN Found(NULL, <<generateIssue(IF schemaTagName(tag) = "Def"
                                       THEN "missingDefinitionForDef"
                                       ELSE "missingDefinitionForDefExpand")>>)
  ELSE Found(definitions[ToLowerCase(tag.value)], <<>>)

\* DefinitionManager.findDefinition(tag)
findDefinition(definitions, tag) ==
  IF schemaTagName(tag) # "Def" /\ schemaTagName(tag) # "Def-expand"
    THEN Found(NULL, <<>>)
  ELSE LET name == ToLowerCase(tag.value)
           errorType == IF schemaTagName(tag) = "Def"
                          THEN "missingDefinitionForDef"
                          ELSE "missingDefinitionForDefExpand"
       IN  IF name \notin DOMAIN definitions
             THEN Found(NULL, <<generateIssue(errorType)>>)
           ELSE IF Truthy(definitions[name].defTag.splitValue)
                     # Truthy(tag.splitValue)
             THEN Found(NULL, <<generateIssue(errorType)>>)
           ELSE Found(definitions[name], <<>>)

\* What evaluateTag returns: the string and the issues.
EvaluatedTag(value, issues) == [value |-> value, issues |-> issues]

\* DefinitionManager.evaluateTag(tag, hedSchemas, placeholderAllowed)
evaluateTag(definitions, tag, placeholderAllowed) ==
  With(findDefinition(definitions, tag), LAMBDA found :
    IF Len(found.issues) > 0 THEN EvaluatedTag(NULL, found.issues)
    ELSE IF found.definition # NULL
      THEN With(evaluateDefinition(found.definition, tag, placeholderAllowed),
                LAMBDA evaluated :
             IF IsThrown(evaluated) THEN evaluated
             ELSE EvaluatedTag(evaluated.value,
                               evaluated.errors \o evaluated.warnings))
    ELSE EvaluatedTag(NULL, <<>>))

\* The issues a validation returns.
Issues(list) == [issues |-> list]

\* The issues of a list of results, or the first IssueError among them.
IssuesOf(results) ==
  IF \E k \in 1..Len(results) : IsThrown(results[k])
    THEN FirstThrown(results)
    ELSE Issues(Flat([k \in 1..Len(results) |-> results[k].issues]))

\* filterByTagName(tags, tagName)
filterByTagName(tagList, tagName) ==
  SelectSeq(tagList,
            LAMBDA tag : tag.type = "tag" /\ schemaTagName(tag) = tagName)

\* DefinitionManager.validateDefs(hedString, hedSchemas, placeholderAllowed):
\* the issues, or the IssueError that leaves it.
validateDefs(definitions, parsed, placeholderAllowed) ==
  With(filterByTagName(tags(parsed), "Def"), LAMBDA found :
    IssuesOf([k \in 1..Len(found) |->
                evaluateTag(definitions, found[k], placeholderAllowed)]))

\* One turn of the loop of _checkDefExpandGroup, on a group that
\* subParsedGroupIterator yields: its issues, as a result.
checkDefExpand(definitions, group, placeholderAllowed) ==
  IF Len(defExpandTags(group)) = 0 THEN EvaluatedTag(NULL, <<>>)
  ELSE With(evaluateTag(definitions, defExpandTags(group)[1],
                        placeholderAllowed),
            LAMBDA evaluated :
         IF IsThrown(evaluated) THEN evaluated
         ELSE IF Len(evaluated.issues) > 0 THEN evaluated
         ELSE IF Len(topGroups(group)) = 0 /\ evaluated.value # Normal(<<>>)
           THEN EvaluatedTag(NULL, <<generateIssue("defExpandContentsInvalid")>>)
         ELSE IF Len(topGroups(group)) > 0
                 /\ normalized(topGroups(group)[1]) # evaluated.value
           THEN EvaluatedTag(NULL, <<generateIssue("defExpandContentsInvalid")>>)
         ELSE EvaluatedTag(NULL, <<>>))

\* DefinitionManager._checkDefExpandGroup(topGroup, hedSchemas,
\* placeholderAllowed).  filterByTagName returns an array, which is truthy:
\* subParsedGroupIterator('Def-expand') yields every group.
checkDefExpandGroup(definitions, topGroup, placeholderAllowed) ==
  With(subParsedGroupIterator(topGroup), LAMBDA groups :
    IssuesOf([k \in 1..Len(groups) |->
                checkDefExpand(definitions, groups[k], placeholderAllowed)]))

\* DefinitionManager.validateDefExpands(hedString, hedSchemas,
\* placeholderAllowed): the issues, or the IssueError that leaves it.
validateDefExpands(definitions, parsed, placeholderAllowed) ==
  IF Len(filterByTagName(tags(parsed), "Def-expand")) = 0 THEN Issues(<<>>)
  ELSE IssuesOf([k \in 1..Len(tagGroups(parsed)) |->
                   checkDefExpandGroup(definitions, tagGroups(parsed)[k],
                                       placeholderAllowed)])

----------------------------------------------------------------------------
(* The strings that are parsed *)

\* The most tags and column splices a string holds.
MaxLeaves == 2

\* The deepest nesting of groups in a string.
MaxDepth == 2

\* The tags and column splices the strings are made of: schema tags in short
\* form, an extension, a value, a library prefix, reserved tags, a tag the
\* schema lacks, two column splices whose names are canonically equivalent,
\* and an invalid character.
AtomTexts ==
  { <<"E", "v", "e", "n", "t">>, <<"O", "b", "j", "e", "c", "t">>, <<"I", "t", "e", "m", "/", "A", "b">>, <<"L", "a", "b", "e", "l", "/", "#">>, <<"x", ":", "E", "v", "e", "n", "t">>,
    <<"O", "n", "s", "e", "t">>, <<"D", "e", "f", "i", "n", "i", "t", "i", "o", "n", "/", "A", "b">>, <<"N", "o", "p", "e">>, <<"{", "K", "}">>,
    <<OPENING_COLUMN, KELVIN_SIGN, CLOSING_COLUMN>>, <<"~">> }

Atom(text) == [kind |-> "atom", text |-> text]

Group(members) == [kind |-> "group", members |-> members]

\* The lists of members that hold n tags and column splices in all, nested
\* at most d deep, and the single members that do.
RECURSIVE Forests(_, _)
RECURSIVE Members(_, _)
Forests(n, d) ==
  IF n = 0 THEN {<<>>}
  ELSE UNION {{<<m>> \o rest : m \in Members(k, d), rest \in Forests(n - k, d)}
                : k \in 1..n}

Members(n, d) ==
  (IF n = 1 THEN {Atom(text) : text \in AtomTexts} ELSE {})
    \cup (IF d > 0 THEN {Group(f) : f \in Forests(n, d - 1)} ELSE {})

Sources == UNION {Forests(n, MaxDepth) : n \in 0..MaxLeaves}

\* The string a list of members is written as.
RECURSIVE Render(_)
Render(forest) ==
  Join([k \in 1..Len(forest) |->
          IF forest[k].kind = "atom" THEN forest[k].text
          ELSE <<OPENING_GROUP>> \o Render(forest[k].members)
                 \o <<CLOSING_GROUP>>],
       <<COMMA>>)

\* Two lists of members differ only by the order of the members, at the top
\* level or inside any group.
RECURSIVE SameUpToOrder(_, _)
SameUpToOrder(a, b) ==
  /\ Len(a) = Len(b)
  /\ \E p \in Permutations(1..Len(a)) :
       \A k \in 1..Len(a) :
         /\ a[k].kind = b[p[k]].kind
         /\ IF a[k].kind = "atom" THEN a[k].text = b[p[k]].text
            ELSE SameUpToOrder(a[k].members, b[p[k]].members)

\* The arguments of parseHedString besides the string; without schemas the
\* flags are not read.
Options ==
  {o \in [hedSchemas : BOOLEAN, definitionsAllowed : BOOLEAN,
          placeholdersAllowed : BOOLEAN, fullValidation : BOOLEAN] :
     ~o.hedSchemas =>
       ~(o.definitionsAllowed \/ o.placeholdersAllowed \/ o.fullValidation)}

\* The first argument of parseHedString: a string, null, or a string that
\* has been parsed.
StringInput(string) == [kind |-> "string", string |-> string]
NullInput == [kind |-> "null"]
ParsedInput(parsedString) == [kind |-> "parsed", parsed |-> parsedString]

----------------------------------------------------------------------------
(* State *)

VARIABLES
  hedString,   \* HedStringTokenizer.hedString
  state,       \* HedStringTokenizer.state (TokenizerState)
  issues,      \* HedStringTokenizer.issues
  i,           \* the loop index of tokenize()
  pc,          \* where tokenize() or parse() is
  tokenized,   \* the tuple tokenize() has returned (NULL before it returns)
  input,       \* HedStringParser.hedString
  options,     \* hedSchemas, definitionsAllowed, placeholdersAllowed of the
               \* HedStringParser and the fullValidation argument of parse()
  split,       \* what splitHedString() has returned to parse()
  parsedString,\* the ParsedHedString parse() has constructed
  returned,    \* the tuple parse() has returned (NULL before it returns)
  thrown,      \* the exception that has left parse() (NULL if none has)
  source,      \* the members the string of the first call was written from
  first,       \* the ParsedHedString the first call has returned
  pass,        \* which call this is: "first", "formatted", "permuted", "parsed"
  definitions, \* DefinitionManager.definitions
  called       \* the last call of a manager's method: its arguments and what
               \* it has returned

tokenizerVars == <<hedString, state, issues, i, tokenized>>

parserVars ==
  <<input, options, split, parsedString, returned, thrown, source, first, pass>>

managerVars == <<definitions, called>>

vars == <<hedString, state, issues, i, pc, tokenized, input, options, split,
          parsedString, returned, thrown, source, first, pass, definitions,
          called>>

\* A call of a method: its name, its argument, its placeholderAllowed
\* argument and what it has returned.
Call(op, arg, placeholderAllowed, result) ==
  [op |-> op, arg |-> arg, placeholderAllowed |-> placeholderAllowed,
   result |-> result]

\* No manager has been constructed.
NoManager ==
  /\ definitions = NoDefinitions
  /\ called = Call("none", NULL, FALSE, NULL)

\* No call of parseHedString is under way.
NoParser ==
  /\ input = NullInput
  /\ options = [hedSchemas |-> FALSE, definitionsAllowed |-> FALSE,
                placeholdersAllowed |-> FALSE, fullValidation |-> FALSE]
  /\ split = NULL
  /\ parsedString = NULL
  /\ returned = NULL
  /\ thrown = NULL
  /\ source = <<>>
  /\ first = NULL
  /\ pass = "first"

\* Strings with nested groups: sibling groups in a group, groups behind
\* tags and column splices, a group that is not closed and one that is not
\* opened.
NestedStrings ==
  { <<"(", "(", "a", ")", ",", "(", "a", ")", ")">>,
    <<"(", "a", ",", "(", "a", ")", ")", ",", "(", "a", ")">>,
    <<"(", "(", "a", ")", ")", ",", "a", ",", "(", "a", ",", "(", "a", ")", ",", "{", "a", "}", ")">>,
    <<"(", "a", ":", "a", "/", "1", ",", " ", "(", "a", ")", " ", ",", "{", "a", "}", ")">>,
    <<"a", ",", "(", "a", ",", "(", "(", "a", ")", ",", "a", ")", ")", ",", "(", "a", ")">>,
    <<"(", "(", "a", ")", ",", "(", "a", ")">>,
    <<"(", "a", ",", "(", "a", ")", ")", ")">>,
    <<"(", "{", "a", "}", ",", "(", "{", "a", "}", ")", ",", "a", "/", "#", ")">> }

InitTok ==
  /\ hedString \in Strings(TokAlphabet, MaxLen)
                     \cup Strings(SpliceAlphabet, MaxSpliceLen)
                     \cup NestedStrings
  /\ state = InitialTokenizerState(hedString)
  /\ issues = <<>>
  /\ i = 0
  /\ pc = "scan"
  /\ tokenized = NULL
  /\ NoParser
  /\ NoManager

\* tokenize() on a string that is empty or blank.
TokenizeBlank ==
  /\ pc = "scan"
  /\ i = 0
  /\ IsBlankString(hedString)
  /\ issues' = <<Issue("emptyTagFound", 0)>>
  /\ tokenized' = [tagSpecs |-> <<>>, groupBounds |-> NULL, issues |-> issues']
  /\ pc' = "tokenized"
  /\ UNCHANGED <<hedString, state, i>>
  /\ UNCHANGED parserVars
  /\ UNCHANGED managerVars

\* The loop of tokenize() is at index i and the character there is c.
AtCharacter(c) ==
  /\ pc = "scan"
  /\ ~IsBlankString(hedString)
  /\ i < Len(hedString)
  /\ CharAt(hedString, i) = c

\* One iteration of the loop of tokenize(): handleCharacter(i, character) and
\* the test of the issue list that follows it.
Handled(t) ==
  /\ state' = t.state
  /\ issues' = t.issues
  /\ i' = i + 1
  /\ IF LoopExit(t.issues)
       THEN /\ pc' = "tokenized"
            /\ tokenized' = [tagSpecs |-> <<>>, groupBounds |-> NULL,
                             issues |-> t.issues]
       ELSE /\ pc' = IF i + 1 < Len(hedString) THEN "scan" ELSE "finalize"
            /\ tokenized' = tokenized
  /\ UNCHANGED hedString
  /\ UNCHANGED parserVars
  /\ UNCHANGED managerVars

HandleOpeningGroup ==
  /\ AtCharacter(OPENING_GROUP)
  /\ Handled(handleCharacter(hedString, Tok(state, issues), i))

HandleClosingGroup ==
  /\ AtCharacter(CLOSING_GROUP)
  /\ Handled(handleCharacter(hedString, Tok(state, issues), i))

HandleOpeningColumn ==
  /\ AtCharacter(OPENING_COLUMN)
  /\ Handled(handleCharacter(hedString, Tok(state, issues), i))

HandleClosingColumn ==
  /\ AtCharacter(CLOSING_COLUMN)
  /\ Handled(handleCharacter(hedString, Tok(state, issues), i))

HandleComma ==
  /\ AtCharacter(COMMA)
  /\ Handled(handleCharacter(hedString, Tok(state, issues), i))

HandleColon ==
  /\ AtCharacter(COLON)
  /\ Handled(handleCharacter(hedString, Tok(state, issues), i))

HandleSlash ==
  /\ AtCharacter(SLASH)
  /\ Handled(handleCharacter(hedString, Tok(state, issues), i))

HandleInvalidCharacter ==
  /\ \E c \in InvalidChars : AtCharacter(c)
  /\ Handled(handleCharacter(hedString, Tok(state, issues), i))

\* The default branch of handleCharacter: the character joins the token.
HandleTokenCharacter ==
  /\ \E c \in TokAlphabet :
       /\ ~IsDelimiter(c)
       /\ ~IsInvalidCharacter(c)
       /\ AtCharacter(c)
  /\ Handled(handleCharacter(hedString, Tok(state, issues), i))

\* The end of tokenize(): finalizeTokenizer() and the returned tuple.
Finalize ==
  /\ pc = "finalize"
  /\ LET t == finalizeTokenizer(hedString, Tok(state, issues))
     IN  /\ state' = t.state
         /\ issues' = t.issues
         /\ tokenized' = TokenizeResult(t)
  /\ pc' = "tokenized"
  /\ UNCHANGED <<hedString, i>>
  /\ UNCHANGED parserVars
  /\ UNCHANGED managerVars

NextTok ==
  \/ TokenizeBlank
  \/ HandleOpeningGroup
  \/ HandleClosingGroup
  \/ HandleOpeningColumn
  \/ HandleClosingColumn
  \/ HandleComma
  \/ HandleColon
  \/ HandleSlash
  \/ HandleInvalidCharacter
  \/ HandleTokenCharacter
  \/ Finalize

TokSpec == InitTok /\ [][NextTok]_vars

----------------------------------------------------------------------------
(* parseHedString: one call, then a second call on what the first returned *)

Init ==
  /\ hedString = <<>>
  /\ state = InitialTokenizerState(<<>>)
  /\ issues = <<>>
  /\ i = 0
  /\ tokenized = NULL
  /\ pc = "parse"
  /\ source \in Sources
  /\ input \in {StringInput(Render(source))}
                 \cup (IF source = <<>> THEN {NullInput} ELSE {})
  /\ options \in Options
  /\ split = NULL
  /\ parsedString = NULL
  /\ returned = NULL
  /\ thrown = NULL
  /\ first = NULL
  /\ pass = "first"
  /\ NoManager

\* parse() returns the tuple.
Return(tuple) ==
  /\ returned' = tuple
  /\ pc' = "returned"

\* parse(), lines 69-82: the tests that precede the split.
CheckInput ==
  /\ pc = "parse"
  /\ IF input.kind = "null"
       THEN Return(Returned(NULL, <<generateIssue("invalidTagString")>>, <<>>))
     ELSE LET checkString == IF input.kind = "parsed"
                               THEN input.parsed.hedString ELSE input.string
              placeholderIssues ==
                getPlaceholderCountIssues(checkString,
                                          options.placeholdersAllowed)
          IN  IF Len(placeholderIssues) > 0
                THEN Return(Returned(NULL, placeholderIssues, <<>>))
              ELSE IF input.kind = "parsed"
                THEN Return(Returned(input.parsed, <<>>, <<>>))
              ELSE IF ~options.hedSchemas
                THEN Return(Returned(NULL,
                       <<generateIssue("missingSchemaSpecification")>>, <<>>))
              ELSE pc' = "split" /\ returned' = returned
  /\ UNCHANGED <<input, options, split, parsedString, thrown, source, first,
                 pass>>
  /\ UNCHANGED tokenizerVars
  /\ UNCHANGED managerVars

\* parse(), lines 85-88: the HedStringSplitter splits the string, which
\* includes the whole run of its tokenizer.
SplitHedString ==
  /\ pc = "split"
  /\ split' = splitHedString(input.string)
  /\ IF splitFailed(split')
       THEN Return(Returned(NULL, split'.issues, <<>>))
       ELSE pc' = "construct" /\ returned' = returned
  /\ UNCHANGED <<input, options, parsedString, thrown, source, first, pass>>
  /\ UNCHANGED tokenizerVars
  /\ UNCHANGED managerVars

\* parse(), line 91: the ParsedHedString is constructed; what its constructor
\* throws leaves parse() and parseHedString.
ConstructParsedHedString ==
  /\ pc = "construct"
  /\ \E constructed \in {ParsedHedString(input.string, split.parsedTags)} :
         IF IsThrown(constructed)
           THEN /\ thrown' = constructed
                /\ pc' = "thrown"
                /\ parsedString' = parsedString
           ELSE /\ parsedString' = constructed
                /\ pc' = "definitions"
                /\ thrown' = thrown
  /\ UNCHANGED <<input, options, split, returned, source, first, pass>>
  /\ UNCHANGED tokenizerVars
  /\ UNCHANGED managerVars

\* parse(), lines 97-100: the DefinitionChecker.
CheckDefinitions ==
  /\ pc = "definitions"
  /\ \E definitionIssues \in
          {checkDefinitions(parsedString, options.definitionsAllowed)} :
         IF Len(definitionIssues) > 0
           THEN Return(Returned(NULL, definitionIssues, <<>>))
           ELSE pc' = "reserved" /\ returned' = returned
  /\ UNCHANGED <<input, options, split, parsedString, thrown, source, first,
                 pass>>
  /\ UNCHANGED tokenizerVars
  /\ UNCHANGED managerVars

\* parse(), lines 103-109: the ReservedChecker, then the warnings.
CheckReserved ==
  /\ pc = "reserved"
  /\ Return(returnChecked(parsedString,
                          checkHedString(parsedString,
                                         options.fullValidation)))
  /\ UNCHANGED <<input, options, split, parsedString, thrown, source, first,
                 pass>>
  /\ UNCHANGED tokenizerVars
  /\ UNCHANGED managerVars

\* A second call of parseHedString starts, on newInput with newOptions.
SecondCall(kind, newInput, newOptions) ==
  /\ pc = "returned"
  /\ pass = "first"
  /\ returned.parsedString # NULL
  /\ first' = returned.parsedString
  /\ pass' = kind
  /\ input' = newInput
  /\ options' = newOptions
  /\ split' = NULL
  /\ parsedString' = NULL
  /\ returned' = NULL
  /\ pc' = "parse"
  /\ UNCHANGED <<thrown, source>>
  /\ UNCHANGED tokenizerVars
  /\ UNCHANGED managerVars

\* The long form of the string that has been parsed is parsed.
ParseFormatted ==
  /\ pc = "returned"
  /\ pass = "first"
  /\ returned.parsedString # NULL
  /\ SecondCall("formatted",
                StringInput(formatString(returned.parsedString, TRUE)),
                options)

\* A string that differs from the first by the order of siblings is parsed.
ParsePermuted ==
  /\ pc = "returned"
  /\ pass = "first"
  /\ returned.parsedString # NULL
  /\ \E other \in Sources :
       /\ other # source
       /\ SameUpToOrder(source, other)
       /\ SecondCall("permuted", StringInput(Render(other)), options)

\* The ParsedHedString that has been returned is passed to parseHedString,
\* with placeholders allowed or not.
ParseParsed ==
  /\ pc = "returned"
  /\ pass = "first"
  /\ returned.parsedString # NULL
  /\ \E allowed \in BOOLEAN :
       SecondCall("parsed", ParsedInput(returned.parsedString),
                  [options EXCEPT !.placeholdersAllowed = allowed])

Next ==
  \/ CheckInput
  \/ SplitHedString
  \/ ConstructParsedHedString
  \/ CheckDefinitions
  \/ CheckReserved
  \/ ParseFormatted
  \/ ParsePermuted
  \/ ParseParsed

Spec == Init /\ [][Next]_vars

----------------------------------------------------------------------------
(* One DefinitionManager: definitions are created from groups and added,    *)
(* then tags and strings are checked against the definitions                *)

\* The strings whose groups become definitions.
DefinitionStrings ==
  { <<"(", "D", "e", "f", "i", "n", "i", "t", "i", "o", "n", "/", "A", "b", ",", "(", "E", "v", "e", "n", "t", ")", ")">>,
    <<"(", "D", "e", "f", "i", "n", "i", "t", "i", "o", "n", "/", "a", "b", ",", "(", "E", "v", "e", "n", "t", ")", ")">>,
    <<"(", "D", "e", "f", "i", "n", "i", "t", "i", "o", "n", "/", "A", "b", ",", "(", "I", "t", "e", "m", ")", ")">>,
    <<"(", "D", "e", "f", "i", "n", "i", "t", "i", "o", "n", "/", "A", "b", ")">>,
    <<"(", "D", "e", "f", "i", "n", "i", "t", "i", "o", "n", "/", "A", "b", "/", "#", ",", "(", "L", "a", "b", "e", "l", "/", "#", ")", ")">>,
    <<"(", "D", "e", "f", "i", "n", "i", "t", "i", "o", "n", "/", "A", "b", "/", "#", ",", "(", "N", "o", "t", "e", "/", "#", ")", ")">>,
    <<"(", "D", "e", "f", "i", "n", "i", "t", "i", "o", "n", "/", "A", "b", "/", "x", ",", "(", "N", "o", "t", "e", "/", "#", ")", ")">>,
    <<"(", "D", "e", "f", "i", "n", "i", "t", "i", "o", "n", "/", "C", "d", ",", "(", "E", "v", "e", "n", "t", ")", ")">>,
    <<"(", "D", "e", "f", "i", "n", "i", "t", "i", "o", "n", "/", "A", "b", "/", "#", ",", "(", "E", "v", "e", "n", "t", ")", ")">>,
    <<"(", "D", "e", "f", "i", "n", "i", "t", "i", "o", "n", "/", "A", "b", "/", "#", ")">>,
    <<"(", "D", "e", "f", "i", "n", "i", "t", "i", "o", "n", "/", "A", "b", ",", "(", "L", "a", "b", "e", "l", "/", "#", ")", ")">>,
    <<"(", "D", "e", "f", "i", "n", "i", "t", "i", "o", "n", "/", "A", "b", ",", "E", "v", "e", "n", "t", ",", "(", "I", "t", "e", "m", ")", ")">>,
    <<"(", "E", "v", "e", "n", "t", ",", "(", "I", "t", "e", "m", ")", ")">>,
    <<"(", "(", "D", "e", "f", "i", "n", "i", "t", "i", "o", "n", "/", "A", "b", ")", ",", "(", "I", "t", "e", "m", ")", ")">> }

\* The groups of a list of parsed substrings.
GroupsOf(items) ==
  {items[k] : k \in {j \in 1..Len(items) : items[j].type = "group"}}

\* The groups the HedStringSplitter makes of those strings.  (Each is compared
\* with itself: TLC then evaluates it in full before its workers share it.)
DefinitionGroups ==
  {group \in UNION {GroupsOf(splitHedString(hed).parsedTags) :
                      hed \in DefinitionStrings} : group = group}

\* The strings that refer to definitions.
ReferenceStrings ==
  { <<"D", "e", "f", "/", "A", "b">>,
    <<"D", "e", "f", "/", "a", "b", ",", "E", "v", "e", "n", "t">>,
    <<"D", "e", "f", "/", "A", "b", "/", "x">>,
    <<"D", "e", "f", "/", "A", "b", "/", "#">>,
    <<"D", "e", "f", "/", "C", "d", ",", "(", "D", "e", "f", "/", "A", "B", ",", "I", "t", "e", "m", ")">>,
    <<"L", "a", "b", "e", "l", "/", "x">>,
    <<"(", "D", "e", "f", "-", "e", "x", "p", "a", "n", "d", "/", "A", "b", ",", "(", "E", "v", "e", "n", "t", ")", ")">>,
    <<"(", "D", "e", "f", "-", "e", "x", "p", "a", "n", "d", "/", "a", "b", ",", "(", "I", "t", "e", "m", ")", ")">>,
    <<"(", "D", "e", "f", "-", "e", "x", "p", "a", "n", "d", "/", "A", "b", ")">>,
    <<"(", "D", "e", "f", "-", "e", "x", "p", "a", "n", "d", "/", "A", "b", "/", "x", ",", "(", "L", "a", "b", "e", "l", "/", "x", ")", ")">>,
    <<"(", "D", "e", "f", "-", "e", "x", "p", "a", "n", "d", "/", "A", "b", "/", "x", ",", "(", "L", "a", "b", "e", "l", "/", "y", ")", ")">>,
    <<"(", "D", "e", "f", "-", "e", "x", "p", "a", "n", "d", "/", "A", "b", "/", "#", ",", "(", "L", "a", "b", "e", "l", "/", "#", ")", ")">>,
    <<"(", "D", "e", "f", "-", "e", "x", "p", "a", "n", "d", "/", "A", "b", "/", "$", "$", ",", "(", "N", "o", "t", "e", "/", "$", "$", ")", ")">>,
    <<"(", "D", "e", "f", "-", "e", "x", "p", "a", "n", "d", "/", "A", "b", "/", "$", "$", ",", "(", "N", "o", "t", "e", "/", "$", ")", ")">>,
    <<"(", "E", "v", "e", "n", "t", ",", "(", "D", "e", "f", "-", "e", "x", "p", "a", "n", "d", "/", "C", "d", ",", "(", "E", "v", "e", "n", "t", ")", ")", ")">> }

\* Those strings parsed, with placeholders allowed.
ParsedReferences ==
  {parsed \in {parseHedString(hed, FALSE, TRUE, TRUE).parsedString :
                 hed \in ReferenceStrings} : parsed = parsed}

\* The tags of those strings.
ReferenceTags ==
  {tag \in UNION {{tags(parsed)[k] : k \in 1..Len(tags(parsed))} :
                    parsed \in ParsedReferences} : tag = tag}

InitDef ==
  /\ hedString = <<>>
  /\ state = InitialTokenizerState(<<>>)
  /\ issues = <<>>
  /\ i = 0
  /\ tokenized = NULL
  /\ pc = "manager"
  /\ NoParser
  /\ definitions = NoDefinitions
  /\ called = Call("new DefinitionManager", NULL, FALSE, NULL)

\* Definition.createDefinitionFromGroup(group)
CreateDefinitionFromGroup(group) ==
  /\ pc = "manager"
  /\ called' = Call("createDefinitionFromGroup", group, FALSE,
                    createDefinitionFromGroup(group))
  /\ UNCHANGED definitions
  /\ UNCHANGED <<pc, tokenizerVars, parserVars>>

\* addDefinition(definition) for the definition createDefinitionFromGroup
\* makes of the group.
AddDefinition(group) ==
  /\ pc = "manager"
  /\ \E created \in {createDefinitionFromGroup(group)} :
       /\ created.definition # NULL
       /\ \E added \in {addDefinition(definitions, created.definition)} :
            /\ definitions' = added.definitions
            /\ called' = Call("addDefinition", created.definition, FALSE,
                              Issues(added.issues))
  /\ UNCHANGED <<pc, tokenizerVars, parserVars>>

\* findDefinition(tag)
FindDefinition(tag) ==
  /\ pc = "manager"
  /\ called' = Call("findDefinition", tag, FALSE,
                    findDefinition(definitions, tag))
  /\ UNCHANGED definitions
  /\ UNCHANGED <<pc, tokenizerVars, parserVars>>

\* evaluateTag(tag, hedSchemas, placeholderAllowed)
EvaluateTag(tag, placeholderAllowed) ==
  /\ pc = "manager"
  /\ called' = Call("evaluateTag", tag, placeholderAllowed,
                    evaluateTag(definitions, tag, placeholderAllowed))
  /\ UNCHANGED definitions
  /\ UNCHANGED <<pc, tokenizerVars, parserVars>>

\* validateDefs(hedString, hedSchemas, placeholderAllowed)
ValidateDefs(parsed, placeholderAllowed) ==
  /\ pc = "manager"
  /\ called' = Call("validateDefs", parsed, placeholderAllowed,
                    validateDefs(definitions, parsed, placeholderAllowed))
  /\ UNCHANGED definitions
  /\ UNCHANGED <<pc, tokenizerVars, parserVars>>

\* validateDefExpands(hedString, hedSchemas, placeholderAllowed)
ValidateDefExpands(parsed, placeholderAllowed) ==
  /\ pc = "manager"
  /\ called' = Call("validateDefExpands", parsed, placeholderAllowed,
                    validateDefExpands(definitions, parsed,
                                       placeholderAllowed))
  /\ UNCHANGED definitions
  /\ UNCHANGED <<pc, tokenizerVars, parserVars>>

NextDef ==
  \/ \E group \in DefinitionGroups : CreateDefinitionFromGroup(group)
  \/ \E group \in DefinitionGroups : AddDefinition(group)
  \/ \E tag \in ReferenceTags : FindDefinition(tag)
  \/ \E tag \in ReferenceTags, placeholderAllowed \in BOOLEAN :
       EvaluateTag(tag, placeholderAllowed)
  \/ \E parsed \in ParsedReferences, placeholderAllowed \in BOOLEAN :
       ValidateDefs(parsed, placeholderAllowed)
  \/ \E parsed \in ParsedReferences, placeholderAllowed \in BOOLEAN :
       ValidateDefExpands(parsed, placeholderAllowed)

DefSpec == InitDef /\ [][NextDef]_vars

----------------------------------------------------------------------------
(* The specification of the creation of definitions from strings:           *)
(* Definition.createDefinition and DefinitionManager.createDefinitions      *)

\* The most strings of a list given to createDefinitions.
MaxDefStrings == 2

\* The strings definitions are created from: the strings above, the empty
\* string, column splices only, a tag, two definitions, a tag beside a
\* definition, a definition with an extended tag, a group that is not closed
\* and a definition with a column splice.
CreatedStrings ==
  DefinitionStrings \cup
  { <<>>,
    <<"{", "a", "}">>,
    <<"{", "a", "}", ",", "{", "b", "}">>,
    <<"E", "v", "e", "n", "t">>,
    <<"(", "D", "e", "f", "i", "n", "i", "t", "i", "o", "n", "/", "A", "b", ")", ",", "(", "D", "e", "f", "i", "n", "i", "t", "i", "o", "n", "/", "C", "d", ")">>,
    <<"(", "D", "e", "f", "i", "n", "i", "t", "i", "o", "n", "/", "A", "b", ",", "(", "E", "v", "e", "n", "t", ")", ")", ",", "E", "v", "e", "n", "t">>,
    <<"(", "D", "e", "f", "i", "n", "i", "t", "i", "o", "n", "/", "A", "b", ",", "(", "I", "t", "e", "m", "/", "a", "b", ")", ")">>,
    <<"(", "D", "e", "f", "i", "n", "i", "t", "i", "o", "n", "/", "A", "b">>,
    <<"(", "D", "e", "f", "i", "n", "i", "t", "i", "o", "n", "/", "A", "b", ",", "(", "{", "a", "}", ")", ")">> }

\* The lists of strings given to createDefinitions.
CreatedLists == UNION {[1..n -> CreatedStrings] : n \in 0..MaxDefStrings}

InitCreate ==
  /\ hedString = <<>>
  /\ state = InitialTokenizerState(<<>>)
  /\ issues = <<>>
  /\ i = 0
  /\ tokenized = NULL
  /\ pc = "definitions"
  /\ NoParser
  /\ definitions = NoDefinitions
  /\ called = Call("none", NULL, FALSE, NULL)

\* Definition.createDefinition(hedString, hedSchemas)
CreateDefinition(hed) ==
  /\ pc = "definitions"
  /\ called' = Call("createDefinition", hed, FALSE, createDefinition(hed))
  /\ pc' = "created"
  /\ UNCHANGED definitions
  /\ UNCHANGED <<tokenizerVars, parserVars>>

\* DefinitionManager.createDefinitions(defStrings, hedSchemas)
CreateDefinitions ==
  /\ pc = "definitions"
  /\ \E defStrings \in CreatedLists :
       called' = Call("createDefinitions", defStrings, FALSE,
                      createDefinitions(defStrings))
  /\ pc' = "created"
  /\ UNCHANGED definitions
  /\ UNCHANGED <<tokenizerVars, parserVars>>

\* One call is followed: both are static and keep no state.
NextCreate ==
  \/ \E hed \in CreatedStrings : CreateDefinition(hed)
  \/ CreateDefinitions

CreateSpec == InitCreate /\ [][NextCreate]_vars

----------------------------------------------------------------------------
(* Event and EventManager *)

\* Times are counted in units of half of EventManager.TOLERANCE (1e-7 s), so
\* that one second is SECOND units.  The differences and the sums the model
\* takes of the times it uses are exact in IEEE doubles as well.
TOLERANCE == 2
SECOND == 20000000

DecimalDigits == <<"0", "1", "2", "3", "4", "5", "6", "7", "8", "9">>

IsDecimalDigit(c) == \E d \in 1..Len(DecimalDigits) : DecimalDigits[d] = c

DigitValue(c) == (CHOOSE d \in 1..Len(DecimalDigits) : DecimalDigits[d] = c) - 1

RECURSIVE DigitsValue(_)
DigitsValue(text) ==
  IF text = <<>> THEN 0
  ELSE 10 * DigitsValue(SubSeq(text, 1, Len(text) - 1))
         + DigitValue(text[Len(text)])

RECURSIVE PowerOfTen(_)
PowerOfTen(n) == IF n = 0 THEN 1 ELSE 10 * PowerOfTen(n - 1)

\* A number that is not finite, and a finite one.
NaN == [finite |-> FALSE, value |-> 0]
Finite(value) == [finite |-> TRUE, value |-> value]

\* Number(text) for a text without sign, exponent, radix prefix and white
\* space: the empty text is 0, digits with at most one decimal point are
\* their decimal value, and any other text is NaN.
Number(text) ==
  LET points == {k \in 1..Len(text) : text[k] = "."}
      point == IF points = {} THEN Len(text) + 1
               ELSE CHOOSE k \in points : \A j \in points : k <= j
      whole == SubSeq(text, 1, point - 1)
      fraction == SubSeq(text, point + 1, Len(text))
  IN  IF /\ Cardinality(points) <= 1
         /\ \A k \in 1..Len(text) : k \in points \/ IsDecimalDigit(text[k])
         /\ (text = <<>> \/ Len(whole) + Len(fraction) > 0)
        THEN Finite(DigitsValue(whole) * SECOND
                      + (DigitsValue(fraction) * SECOND)
                          \div PowerOfTen(Len(fraction)))
      ELSE NaN

\* new Event(defName, eventType, onset, group, element)
Event(defName, eventType, onset, group, element) ==
  [defName |-> defName, type |-> eventType, onset |-> onset, group |-> group,
   tsvLine |-> element.tsvLine]

\* What createEvent returns: the event (or null) and the issues.
EventCreated(event, eventIssues) == [event |-> event, issues |-> eventIssues]

\* group.reservedTags.has(name)
hasReservedTag(group, name) ==
  \E k \in 1..Len(reservedTags(group)) :
    schemaTagName(reservedTags(group)[k]) = name

\* Event.extractDelay(group)
extractDelay(group) ==
  IF ~hasReservedTag(group, "Delay") THEN 0
  ELSE LET delayTags == SelectSeq(reservedTags(group),
                          LAMBDA tag : schemaTagName(tag) = "Delay")
           delay == Number(delayTags[1].value)
       IN  IF delay.finite THEN delay.value ELSE 0

\* Event.createEvent(group, element)
createEvent(group, element) ==
  With(requiresDefTag(group), LAMBDA requiresDef :
    IF Len(requiresDef) = 0 /\ ~hasReservedTag(group, "Delay")
      THEN EventCreated(NULL, <<>>)
    ELSE IF ~Number(element.onset).finite
      THEN EventCreated(NULL,
                        <<generateIssue("temporalTagInNonTemporalContext")>>)
    ELSE IF Len(requiresDef) = 0 THEN EventCreated(NULL, <<>>)
    ELSE LET onset == Number(element.onset).value + extractDelay(group)
             eventType == schemaTagName(requiresDef[1])
         IN  IF Len(defTags(group)) = 1
               THEN EventCreated(
                      Event(ToLowerCase(defTags(group)[1].remainder),
                            eventType, onset, group, element), <<>>)
             ELSE IF Len(defExpandChildren(group)) = 1
               THEN EventCreated(
                      Event(ToLowerCase(
                              topTags(defExpandChildren(group)[1])[1]
                                .remainder),
                            eventType, onset, group, element), <<>>)
             ELSE EventCreated(NULL,
                               <<generateIssue("temporalWithWrongNumberDefs")>>))

\* A mutant of the sort of parseEvents: the events stay in the order of the
\* rows.
sortByOnset_Unsorted(eventList) == eventList

\* eventList.sort((a, b) => a.onset - b.onset): Array.prototype.sort is
\* stable, so an event goes behind the events whose onset is not larger.
RECURSIVE sortByOnset(_)
sortByOnset(eventList) ==
  IF eventList = <<>> THEN <<>>
  ELSE LET front == sortByOnset(SubSeq(eventList, 1, Len(eventList) - 1))
           event == eventList[Len(eventList)]
           before == {k \in 1..Len(front) : front[k].onset - event.onset <= 0}
           place == IF before = {} THEN 0
                    ELSE CHOOSE k \in before : \A j \in before : j <= k
       IN  SubSeq(front, 1, place) \o <<event>>
             \o SubSeq(front, place + 1, Len(front))

\* An array of events.
Events(list) == [events |-> list]

\* What parseEvents returns: the event list (or null) and the issues.
EventsParsed(eventList, eventIssues) ==
  [eventList |-> eventList, issues |-> eventIssues]

\* The loops of parseEvents from group g of element e on: the events pushed,
\* or the issues of the first group that has some.
RECURSIVE collectEvents(_, _, _, _)
collectEvents(elements, e, g, eventList) ==
  IF e > Len(elements) THEN EventsParsed(Events(eventList), <<>>)
  ELSE IF elements[e].parsedHedString = NULL
    THEN collectEvents(elements, e + 1, 1, eventList)
  ELSE IF g > Len(tagGroups(elements[e].parsedHedString))
    THEN collectEvents(elements, e + 1, 1, eventList)
  ELSE LET created == createEvent(tagGroups(elements[e].parsedHedString)[g],
                                  elements[e])
       IN  IF Len(created.issues) > 0 THEN EventsParsed(NULL, created.issues)
           ELSE IF created.event # NULL
             THEN collectEvents(elements, e, g + 1,
                                Append(eventList, created.event))
           ELSE collectEvents(elements, e, g + 1, eventList)

\* EventManager.parseEvents(elements)
parseEvents(elements) ==
  LET collected == collectEvents(elements, 1, 1, <<>>)
  IN  IF collected.eventList = NULL THEN collected
      ELSE EventsParsed(Events(sortByOnset(collected.eventList.events)), <<>>)

\* Math.abs
Abs(n) == IF n < 0 THEN -n ELSE n

\* What _resolveConflicts returns, and the map it leaves.
Resolved(resolveIssues, currentMap) ==
  [issues |-> resolveIssues, currentMap |-> currentMap]

\* currentMap.set(event.defName, event)
setCurrent(currentMap, event) ==
  [name \in DOMAIN currentMap \cup {event.defName} |->
     IF name = event.defName THEN event ELSE currentMap[name]]

\* _resolveConflicts with an event that replaces the active event whatever
\* the two are.
resolveConflicts_AlwaysSet(currentMap, event) ==
  LET currentEvent == currentMap[event.defName]
  IN  IF Abs(currentEvent.onset - event.onset) < TOLERANCE
        THEN Resolved(<<generateIssue("simultaneousDuplicateEvents")>>,
                      currentMap)
      ELSE Resolved(<<>>, setCurrent(currentMap, event))

\* EventManager._resolveConflicts(currentMap, event)
resolveConflicts(currentMap, event) ==
  LET currentEvent == currentMap[event.defName]
  IN  IF Abs(currentEvent.onset - event.onset) < TOLERANCE
        THEN Resolved(<<generateIssue("simultaneousDuplicateEvents")>>,
                      currentMap)
      ELSE IF event.type = "Onset"
        THEN Resolved(<<>>, setCurrent(currentMap, event))
      ELSE IF event.type = "Inset" /\ currentEvent.type # "Offset"
        THEN Resolved(<<>>, setCurrent(currentMap, event))
      ELSE IF event.type = "Offset" /\ currentEvent.type # "Offset"
        THEN Resolved(<<>>, setCurrent(currentMap, event))
      ELSE Resolved(<<>>, currentMap)

\* The loop of validate from event k on.
RECURSIVE validateFrom(_, _, _)
validateFrom(eventList, k, currentMap) ==
  IF k > Len(eventList) THEN <<>>
  ELSE LET event == eventList[k]
       IN  IF event.defName \notin DOMAIN currentMap
             THEN IF event.type = "Offset" \/ event.type = "Inset"
                    THEN <<generateIssue("inactiveOnset")>>
                  ELSE validateFrom(eventList, k + 1,
                                    setCurrent(currentMap, event))
           ELSE LET resolved == resolveConflicts(currentMap, event)
                IN  IF Len(resolved.issues) > 0 THEN resolved.issues
                    ELSE validateFrom(eventList, k + 1, resolved.currentMap)

\* new Map()
EmptyMap == [name \in {} |-> NULL]

\* EventManager.validate(eventList)
validate(eventList) == validateFrom(eventList.events, 1, EmptyMap)

----------------------------------------------------------------------------
(* The specification of an EventManager: it parses the rows of an events   *)
(* file, and then validates the event list it has made of them.            *)

\* The number of rows of an events file.
MaxRows == 3

\* The onset column: 0, 5e-8, 1e-7 and 1 second, and a row without onset.
OnsetTexts ==
  { <<"0">>, <<"0", ".", "0", "0", "0", "0", "0", "0", "0", "5">>, <<"0", ".", "0", "0", "0", "0", "0", "0", "1">>, <<"1">>, <<"n", "/", "a">> }

\* The HED column.
EventStrings ==
  { <<"(", "O", "n", "s", "e", "t", ",", "D", "e", "f", "/", "A", "b", ")">>,
    <<"(", "O", "f", "f", "s", "e", "t", ",", "D", "e", "f", "/", "A", "b", ")">>,
    <<"(", "I", "n", "s", "e", "t", ",", "D", "e", "f", "/", "A", "b", ")">>,
    <<"(", "D", "e", "l", "a", "y", "/", "1", ",", "O", "n", "s", "e", "t", ",", "D", "e", "f", "/", "A", "b", ")">>,
    <<"(", "O", "f", "f", "s", "e", "t", ",", "D", "e", "f", "/", "A", "b", ")", ",", "(", "I", "n", "s", "e", "t", ",", "D", "e", "f", "/", "A", "b", ")">>,
    <<"(", "O", "n", "s", "e", "t", ",", "D", "e", "f", "/", "C", "d", ")">>,
    <<"(", "O", "n", "s", "e", "t", ",", "(", "D", "e", "f", "-", "e", "x", "p", "a", "n", "d", "/", "A", "b", ",", "(", "E", "v", "e", "n", "t", ")", ")", ")">>,
    <<"(", "D", "e", "l", "a", "y", "/", "1", ",", "(", "E", "v", "e", "n", "t", ")", ")">> }

\* The rows: their onset and their HED string, parsed as the rows of a file
\* are, and a row whose HED column is empty.
Rows ==
  {row \in
     {[onset |-> onset, hedString |-> hed,
       parsedHedString |->
         parseHedString(hed, FALSE, FALSE, TRUE).parsedString] :
        onset \in OnsetTexts, hed \in EventStrings}
       \cup {[onset |-> <<"0">>, hedString |-> <<>>, parsedHedString |-> NULL]} :
     row = row}

\* The files: at most MaxRows rows.
RowLists == UNION {[1..n -> Rows] : n \in 0..MaxRows}

\* The BidsTsvElement of row k of a file: the header is line 1.
Element(row, k) ==
  [onset |-> row.onset, hedString |-> row.hedString,
   parsedHedString |-> row.parsedHedString, tsvLine |-> k + 1]

InitEvents ==
  /\ hedString = <<>>
  /\ state = InitialTokenizerState(<<>>)
  /\ issues = <<>>
  /\ i = 0
  /\ tokenized = NULL
  /\ pc = "events"
  /\ NoParser
  /\ definitions = NoDefinitions
  /\ called = Call("new EventManager", NULL, FALSE, NULL)

\* parseEvents(elements) for the elements of a file.
ParseEvents ==
  /\ pc = "events"
  /\ \E rows \in RowLists :
       \E elements \in {[k \in 1..Len(rows) |-> Element(rows[k], k)]} :
         called' = Call("parseEvents", elements, FALSE, parseEvents(elements))
  /\ pc' = "parsed"
  /\ UNCHANGED definitions
  /\ UNCHANGED <<tokenizerVars, parserVars>>

\* validate(eventList) for the event list parseEvents has returned.
Validate ==
  /\ pc = "parsed"
  /\ called.result.eventList # NULL
  /\ called' = Call("validate", called.result.eventList, FALSE,
                    Issues(validate(called.result.eventList)))
  /\ pc' = "validated"
  /\ UNCHANGED definitions
  /\ UNCHANGED <<tokenizerVars, parserVars>>

NextEvents ==
  \/ ParseEvents
  \/ Validate

EventSpec == InitEvents /\ [][NextEvents]_vars

----------------------------------------------------------------------------
(* The specification of the loop of EventManager.validate: the events of    *)
(* the list parseEvents has returned are taken one at a time.               *)

\* The frame of validate: the 1-based index of the next event of the loop,
\* currentMap, and the issues it has returned (returned is FALSE while it
\* loops).
Walk(index, currentMap, walkIssues, hasReturned) ==
  [index |-> index, currentMap |-> currentMap, issues |-> walkIssues,
   returned |-> hasReturned]

\* validate(eventList) is called: const currentMap = new Map()
StartValidate ==
  /\ pc = "parsed"
  /\ called.result.eventList # NULL
  /\ called' = Call("validate", called.result.eventList, FALSE,
                    Walk(1, EmptyMap, <<>>, FALSE))
  /\ pc' = "walking"
  /\ UNCHANGED definitions
  /\ UNCHANGED <<tokenizerVars, parserVars>>

\* One iteration of the loop: for (const event of eventList)
ValidateEvent ==
  /\ pc = "walking"
  /\ called.result.index <= Len(called.arg.events)
  /\ \E event \in {called.arg.events[called.result.index]} :
       \E currentMap \in {called.result.currentMap} :
         IF event.defName \notin DOMAIN currentMap
           THEN IF event.type = "Offset" \/ event.type = "Inset"
                  THEN /\ called' =
                            [called EXCEPT !.result =
                               Walk(called.result.index, currentMap,
                                    <<generateIssue("inactiveOnset")>>, TRUE)]
                       /\ pc' = "validated"
                ELSE /\ called' =
                          [called EXCEPT !.result =
                             Walk(called.result.index + 1,
                                  setCurrent(currentMap, event), <<>>, FALSE)]
                     /\ pc' = pc
         ELSE \E resolved \in {resolveConflicts(currentMap, event)} :
                IF Len(resolved.issues) > 0
                  THEN /\ called' =
                            [called EXCEPT !.result =
                               Walk(called.result.index, resolved.currentMap,
                                    resolved.issues, TRUE)]
                       /\ pc' = "validated"
                ELSE /\ called' =
                          [called EXCEPT !.result =
                             Walk(called.result.index + 1,
                                  resolved.currentMap, <<>>, FALSE)]
                     /\ pc' = pc
  /\ UNCHANGED definitions
  /\ UNCHANGED <<tokenizerVars, parserVars>>

\* The list is exhausted: return []
ValidateReturn ==
  /\ pc = "walking"
  /\ called.result.index > Len(called.arg.events)
  /\ called' = [called EXCEPT !.result.returned = TRUE]
  /\ pc' = "validated"
  /\ UNCHANGED definitions
  /\ UNCHANGED <<tokenizerVars, parserVars>>

NextWalk ==
  \/ ParseEvents
  \/ StartValidate
  \/ ValidateEvent
  \/ ValidateReturn

WalkSpec == InitEvents /\ [][NextWalk]_vars

----------------------------------------------------------------------------
(* The specification of the checkers: the DefinitionChecker and the        *)
(* ReservedChecker are given a ParsedHedString, as parse() gives them one,  *)
(* and return their issues.                                                 *)

\* The strings that are checked.
StructureStrings ==
  { <<"(", "D", "e", "f", "i", "n", "i", "t", "i", "o", "n", "/", "A", "b", ",", "(", "D", "e", "f", "-", "e", "x", "p", "a", "n", "d", "/", "C", "d", ")", ")">>,
    <<"(", "D", "e", "f", "i", "n", "i", "t", "i", "o", "n", "/", "A", "b", ",", "(", "D", "e", "f", "i", "n", "i", "t", "i", "o", "n", "/", "C", "d", ")", ")">>,
    <<"(", "D", "e", "f", "-", "e", "x", "p", "a", "n", "d", "/", "A", "b", ",", "(", "D", "e", "f", "-", "e", "x", "p", "a", "n", "d", "/", "C", "d", ")", ")">>,
    <<"(", "D", "e", "f", "i", "n", "i", "t", "i", "o", "n", "/", "A", "b", ",", "(", "D", "e", "f", "/", "C", "d", ")", ")">>,
    <<"(", "D", "e", "f", "i", "n", "i", "t", "i", "o", "n", "/", "A", "b", ",", "(", "E", "v", "e", "n", "t", ",", "(", "D", "e", "f", "/", "C", "d", ")", ")", ")">>,
    <<"(", "D", "e", "f", "-", "e", "x", "p", "a", "n", "d", "/", "A", "b", ",", "(", "E", "v", "e", "n", "t", ",", "(", "D", "e", "f", "-", "e", "x", "p", "a", "n", "d", "/", "C", "d", ")", ")", ")">>,
    <<"(", "E", "v", "e", "n", "t", ",", "(", "D", "e", "f", "-", "e", "x", "p", "a", "n", "d", "/", "A", "b", ",", "(", "D", "e", "f", "/", "C", "d", ")", ")", ")">>,
    <<"(", "D", "e", "f", "i", "n", "i", "t", "i", "o", "n", "/", "A", "b", ",", "(", "E", "v", "e", "n", "t", ")", ")">>,
    <<"(", "D", "e", "f", "-", "e", "x", "p", "a", "n", "d", "/", "A", "b", ",", "(", "E", "v", "e", "n", "t", ")", ")">>,
    <<"(", "D", "e", "f", "i", "n", "i", "t", "i", "o", "n", "/", "A", "b", ",", "D", "e", "f", "/", "C", "d", ")">>,
    <<"(", "D", "e", "f", "i", "n", "i", "t", "i", "o", "n", "/", "A", "b", ",", "(", "E", "v", "e", "n", "t", ",", "(", "D", "e", "f", "i", "n", "i", "t", "i", "o", "n", "/", "C", "d", ")", ")", ")">>,
    <<"(", "O", "n", "s", "e", "t", ",", "D", "e", "f", "/", "A", "b", ")">>,
    <<"(", "E", "v", "e", "n", "t", ",", "(", "O", "n", "s", "e", "t", ",", "D", "e", "f", "/", "A", "b", ")", ")">>,
    <<"O", "n", "s", "e", "t">>,
    <<"O", "n", "s", "e", "t", ",", "(", "E", "v", "e", "n", "t", ",", "(", "O", "f", "f", "s", "e", "t", ",", "D", "e", "f", "/", "A", "b", ")", ")">>,
    <<"(", "E", "v", "e", "n", "t", ",", "(", "D", "e", "f", "i", "n", "i", "t", "i", "o", "n", "/", "A", "b", ")", ")">>,
    <<"D", "e", "f", "i", "n", "i", "t", "i", "o", "n", "/", "A", "b">>,
    <<"D", "e", "f", "-", "e", "x", "p", "a", "n", "d", "/", "A", "b">>,
    <<"E", "v", "e", "n", "t", ",", "(", "I", "t", "e", "m", ")">>,
    <<"(", "E", "v", "e", "n", "t", ",", "(", "I", "t", "e", "m", ",", "(", "D", "e", "l", "a", "y", "/", "1", ")", ")", ")">>,
    <<"(", "D", "u", "r", "a", "t", "i", "o", "n", "/", "1", ",", "(", "E", "v", "e", "n", "t", ")", ")">>,
    <<"(", "D", "u", "r", "a", "t", "i", "o", "n", "/", "1", ")">>,
    <<"(", "D", "u", "r", "a", "t", "i", "o", "n", "/", "1", ",", "(", "E", "v", "e", "n", "t", ")", ",", "(", "I", "t", "e", "m", ")", ")">>,
    <<"(", "D", "u", "r", "a", "t", "i", "o", "n", "/", "1", ",", "(", "{", "a", "}", ")", ")">>,
    <<"(", "O", "n", "s", "e", "t", ",", "D", "e", "f", "/", "A", "b", ",", "(", "E", "v", "e", "n", "t", ")", ")">>,
    <<"(", "O", "n", "s", "e", "t", ",", "D", "e", "f", "/", "A", "b", ",", "(", "E", "v", "e", "n", "t", ")", ",", "(", "I", "t", "e", "m", ")", ")">>,
    <<"(", "O", "n", "s", "e", "t", ",", "(", "D", "e", "f", "-", "e", "x", "p", "a", "n", "d", "/", "A", "b", ",", "(", "E", "v", "e", "n", "t", ")", ")", ",", "(", "I", "t", "e", "m", ")", ")">>,
    <<"(", "O", "n", "s", "e", "t", ",", "(", "D", "e", "f", "-", "e", "x", "p", "a", "n", "d", "/", "A", "b", ",", "(", "E", "v", "e", "n", "t", ")", ")", ",", "(", "I", "t", "e", "m", ")", ",", "(", "E", "v", "e", "n", "t", ")", ")">>,
    <<"(", "O", "f", "f", "s", "e", "t", ",", "D", "e", "f", "/", "A", "b", ",", "(", "E", "v", "e", "n", "t", ")", ")">>,
    <<"(", "O", "f", "f", "s", "e", "t", ",", "(", "D", "e", "f", "-", "e", "x", "p", "a", "n", "d", "/", "A", "b", ")", ")">>,
    <<"(", "D", "e", "f", "/", "A", "b", ",", "(", "E", "v", "e", "n", "t", ")", ",", "(", "I", "t", "e", "m", ")", ")">>,
    <<"(", "D", "u", "r", "a", "t", "i", "o", "n", "/", "1", ",", "D", "e", "l", "a", "y", "/", "1", ",", "(", "E", "v", "e", "n", "t", ")", ")">>,
    <<"(", "O", "n", "s", "e", "t", ",", "(", "E", "v", "e", "n", "t", ")", ",", "(", "I", "t", "e", "m", ")", ")">>,
    <<"(", "D", "e", "f", "i", "n", "i", "t", "i", "o", "n", "/", "A", "b", ",", "(", "E", "v", "e", "n", "t", ")", ",", "(", "I", "t", "e", "m", ")", ")">>,
    <<"(", "D", "u", "r", "a", "t", "i", "o", "n", "/", "1", ")", ",", "(", "O", "f", "f", "s", "e", "t", ",", "D", "e", "f", "/", "A", "b", ",", "(", "E", "v", "e", "n", "t", ")", ")">>,
    <<"(", "E", "v", "e", "n", "t", ",", "(", "O", "n", "s", "e", "t", ",", "D", "e", "f", "/", "A", "b", ")", ",", "(", "O", "f", "f", "s", "e", "t", ",", "D", "e", "f", "/", "C", "d", ")", ")">>,
    <<"O", "n", "s", "e", "t", ",", "O", "f", "f", "s", "e", "t">>,
    <<"E", "v", "e", "n", "t">>,
    <<"(", "D", "u", "r", "a", "t", "i", "o", "n", "/", "1", ",", "(", "E", "v", "e", "n", "t", ",", "(", "{", "a", "}", ")", ")", ")">>,
    <<"(", "D", "e", "f", "i", "n", "i", "t", "i", "o", "n", "/", "A", "b", ",", "(", "{", "a", "}", ")", ")">> }

\* The ParsedHedStrings parse() constructs of those strings: the strings the
\* split has not failed for.  (Each is compared with itself: TLC then
\* evaluates it in full before its workers share it.)
CheckedStrings ==
  {parsed \in
     {ParsedHedString(hed, splitHedString(hed).parsedTags) :
        hed \in {string \in StructureStrings :
                   ~splitFailed(splitHedString(string))}} :
     ~IsThrown(parsed) /\ parsed = parsed}

InitCheck ==
  /\ hedString = <<>>
  /\ state = InitialTokenizerState(<<>>)
  /\ issues = <<>>
  /\ i = 0
  /\ tokenized = NULL
  /\ pc = "checker"
  /\ NoParser
  /\ definitions = NoDefinitions
  /\ called = Call("none", NULL, FALSE, NULL)

\* new DefinitionChecker(hedString).check(allowDefinitions)
Check(parsed, allowDefinitions) ==
  /\ pc = "checker"
  /\ called' = Call("check", parsed, allowDefinitions,
                    Issues(checkDefinitions(parsed, allowDefinitions)))
  /\ UNCHANGED definitions
  /\ UNCHANGED <<pc, tokenizerVars, parserVars>>

\* ReservedChecker.getInstance().checkHedString(hedString, fullValidation)
CheckHedString(parsed, fullValidation) ==
  /\ pc = "checker"
  /\ called' = Call("checkHedString", parsed, fullValidation,
                    Issues(checkHedString(parsed, fullValidation)))
  /\ UNCHANGED definitions
  /\ UNCHANGED <<pc, tokenizerVars, parserVars>>

\* checkTagGroupLevels(hedString, fullValidation)
CheckTagGroupLevels(parsed, fullValidation) ==
  /\ pc = "checker"
  /\ called' = Call("checkTagGroupLevels", parsed, fullValidation,
                    Issues(checkTagGroupLevels(parsed, fullValidation)))
  /\ UNCHANGED definitions
  /\ UNCHANGED <<pc, tokenizerVars, parserVars>>

\* checkTopGroupRequirements(hedString)
CheckTopGroupRequirements(parsed) ==
  /\ pc = "checker"
  /\ called' = Call("checkTopGroupRequirements", parsed, FALSE,
                    Issues(checkTopGroupRequirements(parsed)))
  /\ UNCHANGED definitions
  /\ UNCHANGED <<pc, tokenizerVars, parserVars>>

NextCheck ==
  \/ \E parsed \in CheckedStrings, allowDefinitions \in BOOLEAN :
       Check(parsed, allowDefinitions)
  \/ \E parsed \in CheckedStrings, fullValidation \in BOOLEAN :
       CheckHedString(parsed, fullValidation)
  \/ \E parsed \in CheckedStrings, fullValidation \in BOOLEAN :
       CheckTagGroupLevels(parsed, fullValidation)
  \/ \E parsed \in CheckedStrings : CheckTopGroupRequirements(parsed)

CheckSpec == InitCheck /\ [][NextCheck]_vars

----------------------------------------------------------------------------
(* The specification of tag resolution: a TagSpec is converted by a         *)
(* TagConverter, a ParsedHedTag is constructed of it, and checkValue is     *)
(* called on a tag that takes a value.                                      *)

\* The most levels of a tag path.
MaxLevels == 3

\* The levels the tag paths are made of: schema tags (one with a child, one
\* that allows no extension, two that take a value, a reserved one), a name,
\* a level with a blank, an empty level, a level with a comma and a
\* placeholder.
PathLevels ==
  { <<"I", "t", "e", "m">>, <<"O", "b", "j", "e", "c", "t">>, <<"E", "v", "e", "n", "t">>, <<"L", "a", "b", "e", "l">>, <<"N", "o", "t", "e">>, <<"D", "e", "f">>,
    <<"a", "b">>, <<"a", " ", "b">>, <<>>, <<"a", ",">>, <<"#">> }

\* The paths of at most n levels.
RECURSIVE PathsOf(_)
PathsOf(n) ==
  IF n <= 1 THEN PathLevels
  ELSE PathsOf(n - 1)
         \cup {path \o <<SLASH>> \o level :
                 path \in PathsOf(n - 1), level \in PathLevels}

\* The TagSpecs that are resolved, all of the base schema.
TagSpecs ==
  {tagSpec \in {TagSpec(text, 0, Len(text), <<>>) :
                  text \in PathsOf(MaxLevels)} : tagSpec = tagSpec}

\* The tags that have been constructed and take a value.
ValueTags ==
  {tag \in {ParsedHedTag(tagSpec) : tagSpec \in TagSpecs} :
     /\ tag = tag
     /\ ~IsThrown(tag)
     /\ tag.schemaTag.isValueTag}

\* What checkValue has returned: accepted when the message is empty.
Checked(accepted) == [accepted |-> accepted]

InitResolve ==
  /\ hedString = <<>>
  /\ state = InitialTokenizerState(<<>>)
  /\ issues = <<>>
  /\ i = 0
  /\ tokenized = NULL
  /\ pc = "resolver"
  /\ NoParser
  /\ definitions = NoDefinitions
  /\ called = Call("none", NULL, FALSE, NULL)

\* new TagConverter(tagSpec, hedSchemas).convert()
Convert(tagSpec) ==
  /\ pc = "resolver"
  /\ called' = Call("convert", tagSpec, FALSE, convert(tagSpec))
  /\ UNCHANGED definitions
  /\ pc' = "resolved"
  /\ UNCHANGED <<tokenizerVars, parserVars>>

\* new ParsedHedTag(tagSpec, hedSchemas)
NewParsedHedTag(tagSpec) ==
  /\ pc = "resolver"
  /\ called' = Call("ParsedHedTag", tagSpec, FALSE, ParsedHedTag(tagSpec))
  /\ UNCHANGED definitions
  /\ pc' = "resolved"
  /\ UNCHANGED <<tokenizerVars, parserVars>>

\* tag.checkValue(value)
CheckValue(tag, value) ==
  /\ pc = "resolver"
  /\ called' = Call("checkValue", [tag |-> tag, value |-> value], FALSE,
                    Checked(checkValue(tag.schemaTag, value)))
  /\ UNCHANGED definitions
  /\ pc' = "resolved"
  /\ UNCHANGED <<tokenizerVars, parserVars>>

\* One call is followed: the resolver keeps no state between calls.
NextResolve ==
  \/ \E tagSpec \in TagSpecs : Convert(tagSpec)
  \/ \E tagSpec \in TagSpecs : NewParsedHedTag(tagSpec)
  \/ \E tag \in ValueTags, value \in PathLevels : CheckValue(tag, value)

ResolveSpec == InitResolve /\ [][NextResolve]_vars

----------------------------------------------------------------------------
(* Properties of parseHedString, checked under Spec *)

\* C1: parseHedString returns a non-null ParsedHedString exactly when the
\* returned error list is empty: whenever a lexical or resolution error (found
\* by the split), a definition error or a reserved-tag error is found, the
\* tree is null and only the issues are returned, and a non-empty warning
\* list is returned only together with a non-null tree.
C1_TreeIffNoErrors ==
  pc = "returned" =>
    /\ (returned.parsedString # NULL) <=> (returned.errors = <<>>)
    /\ returned.warnings # <<>> => returned.parsedString # NULL
    /\ (split # NULL /\ split.issues # <<>>) =>
         returned = Returned(NULL, split.issues, <<>>)
    /\ (parsedString # NULL
          /\ \/ checkDefinitions(parsedString,
                                 options.definitionsAllowed) # <<>>
             \/ checkHedString(parsedString, options.fullValidation) # <<>>) =>
         /\ returned.parsedString = NULL
         /\ returned.errors # <<>>
         /\ returned.warnings = <<>>

\* parse() has built the ParsedHedString and then returned an error found by
\* the definition check or the reserved-tag check, without the tree.
C1_Witness ==
  /\ pc = "returned"
  /\ parsedString # NULL
  /\ returned.parsedString = NULL
  /\ returned.errors # <<>>

\* C2: parseHedString never lets an exception escape to its caller: every
\* failure raised while tokenizing, resolving tags, building the
\* ParsedHedString (including its normalization) or running the structural
\* checks is returned as an issue in the error list.
C2_NoExceptionEscapes ==
  /\ pc # "thrown"
  /\ thrown = NULL

\* The sibling lists of a parse tree: the top level and the members of every
\* group at any depth.
RECURSIVE Levels(_)
Levels(items) ==
  {items} \cup
  UNION {IF items[k].type = "group" THEN Levels(items[k].tags) ELSE {}
           : k \in 1..Len(items)}

\* Two siblings of the list have the same normalized form.
DuplicateSiblings(items) ==
  \E j \in 1..Len(items) :
    \E k \in (j + 1)..Len(items) :
      /\ ~IsThrown(normalized(items[j]))
      /\ ~IsThrown(normalized(items[k]))
      /\ normalized(items[j]) = normalized(items[k])

\* C3: whenever two siblings at the same level (the top level of the string,
\* or the members of any group at any depth) have the same normalized form,
\* parsing fails with the duplicateTag code and no ParsedHedString is built;
\* every ParsedHedString that parse returns has pairwise distinct sibling
\* normal forms at every level.
C3_DuplicateSiblingsFail ==
  /\ (split # NULL /\ ~splitFailed(split) /\ pc # "construct"
        /\ \E level \in Levels(split.parsedTags) : DuplicateSiblings(level)) =>
       /\ pc = "thrown"
       /\ thrown = Thrown("duplicateTag")
       /\ parsedString = NULL
       /\ returned = NULL
  /\ (pc = "returned" /\ returned.parsedString # NULL) =>
       \A level \in Levels(returned.parsedString.parseTree) :
         ~DuplicateSiblings(level)

\* Parsing has failed with duplicateTag for duplicates that are members of a
\* group, the top level having none.
C3_Witness ==
  /\ pc = "thrown"
  /\ thrown = Thrown("duplicateTag")
  /\ ~DuplicateSiblings(split.parsedTags)
  /\ \E level \in Levels(split.parsedTags) : DuplicateSiblings(level)

\* The number of groups among the members, at any depth.
RECURSIVE GroupCount(_)
RECURSIVE GroupCountFrom(_, _)
GroupCountFrom(forest, k) ==
  IF k > Len(forest) THEN 0
  ELSE (IF forest[k].kind = "group"
          THEN 1 + GroupCount(forest[k].members) ELSE 0)
         + GroupCountFrom(forest, k + 1)

GroupCount(forest) == GroupCountFrom(forest, 1)

\* C4: normalization is invariant under reordering of siblings: two
\* successfully parsed strings that differ only by a permutation of the
\* comma-separated members at the top level or inside any group have equal
\* normalized strings, and the normalized string keeps the nesting of groups.
C4_PermutationInvariant ==
  (pass = "permuted" /\ pc = "returned" /\ returned.parsedString # NULL) =>
    /\ returned.parsedString.normalized = first.normalized
    /\ CountChar(first.normalized, OPENING_GROUP) = GroupCount(source)

\* Two parse trees hold the same tags, groups and column splices at every
\* level, in the same order, equivalent one by one.
RECURSIVE SameTree(_, _)
SameTree(ours, theirs) ==
  /\ Len(ours) = Len(theirs)
  /\ \A k \in 1..Len(ours) :
       /\ equivalent(ours[k], theirs[k])
       /\ equivalent(theirs[k], ours[k])
       /\ ours[k].type = theirs[k].type
       /\ ours[k].type = "group" => SameTree(ours[k].tags, theirs[k].tags)

----------------------------------------------------------------------------
(* Properties of the tokenizer, checked under TokSpec *)

\* The tag and column-splice specifications of a token forest, at any depth.
RECURSIVE AllSpecs(_)
AllSpecs(items) ==
  UNION {IF items[k].type = "array" THEN AllSpecs(items[k].items)
                                    ELSE {items[k]} : k \in 1..Len(items)}

\* The sibling lists of a token forest: the top level and every group.
RECURSIVE SiblingLists(_)
SiblingLists(items) ==
  {items} \cup
  UNION {IF items[k].type = "array" THEN SiblingLists(items[k].items)
                                    ELSE {} : k \in 1..Len(items)}

\* tokenize() has returned without issues.
TokenizeSucceeded == pc = "tokenized" /\ tokenized.issues = <<>>

\* C6: the scan goes on only while no issue has been recorded, so it stops at
\* the first character whose handling records one; the tuple returned then
\* holds an empty forest, a null root and the issues, and a non-empty forest
\* or a non-null root is returned only together with an empty issue list.
C6_StopsAtFirstIssue ==
  /\ pc \in {"scan", "finalize"} => issues = <<>>
  /\ pc = "tokenized" =>
       /\ tokenized.issues = issues
       /\ issues # <<>> =>
            tokenized.tagSpecs = <<>> /\ tokenized.groupBounds = NULL
       /\ (tokenized.tagSpecs # <<>> \/ tokenized.groupBounds # NULL) =>
            issues = <<>>

\* The scan has stopped at an issue before the end of the string.
C6_Witness ==
  /\ pc = "tokenized"
  /\ Len(issues) = 1
  /\ 0 < i
  /\ i < Len(hedString)
  /\ issues[1].index = i - 1
  /\ tokenized.groupBounds = NULL

\* The indices of the opening parentheses of the groups that are still open.
OpenGroupStarts(st) ==
  {st.parenthesesStack[k].bounds[1] : k \in 2..Len(st.parenthesesStack)}

\* C7: when the input ends with k >= 1 groups still open, finalizeTokenizer
\* records exactly one unclosedParenthesis issue per open group, each at the
\* index of that group's opening parenthesis.
C7_OneIssuePerOpenGroup ==
  [][(pc = "finalize" /\ state.groupDepth >= 1) =>
       LET unclosed == SelectSeq(issues',
                                 LAMBDA e : e.code = "unclosedParenthesis")
       IN  /\ Len(unclosed) = state.groupDepth
           /\ {unclosed[k].index : k \in 1..Len(unclosed)}
                = OpenGroupStarts(state)]_vars

\* A tag text with a leading or trailing slash, a doubled slash or a slash
\* next to a blank.
MalformedSlash(text) ==
  \/ StartsWith(text, SLASH)
  \/ EndsWith(text, SLASH)
  \/ \E k \in 1..(Len(text) - 1) :
       \/ text[k] = SLASH /\ text[k + 1] \in {SLASH, BLANK}
       \/ text[k] = BLANK /\ text[k + 1] = SLASH

\* C8: no TagSpec of a successful tokenization has a text that starts or ends
\* with a slash, holds a doubled slash or holds a slash next to a blank.
C8_NoMalformedSlash ==
  TokenizeSucceeded =>
    \A spec \in AllSpecs(tokenized.tagSpecs) :
      spec.type = "tag" => ~MalformedSlash(spec.tag)

\* The first non-blank character of hed after the 0-based index k, or
\* UNDEFINED when only blanks follow.
NextNonBlank(hed, k) ==
  LET rest == TrimStart(SliceFrom(hed, k + 1))
  IN  IF Len(rest) = 0 THEN UNDEFINED ELSE rest[1]

\* C9: a successful tokenization never yields a column splice directly
\* followed by a sibling without a comma between them: what follows the
\* closing brace of a splice that has a next sibling is a comma.
C9_CommaAfterSplice ==
  TokenizeSucceeded =>
    \A items \in SiblingLists(tokenized.tagSpecs) :
      \A k \in 1..(Len(items) - 1) :
        items[k].type = "splice" =>
          NextNonBlank(hedString, items[k].bounds[2]) = COMMA

\* C10: within one tag token a colon splits off a library prefix at most
\* once, and only from an alphabetic pending text; every other colon stays in
\* the tag text.  For an input that is a single tag token, at most one of its
\* colons is missing from the text of the TagSpec.
C10_ColonSplitsOnce ==
  (TokenizeSucceeded
     /\ \A k \in 1..Len(hedString) :
          hedString[k] \in Letters \cup Digits \cup {COLON}) =>
    /\ Len(tokenized.tagSpecs) <= 1
    /\ \A spec \in AllSpecs(tokenized.tagSpecs) :
         /\ CountChar(hedString, COLON) - CountChar(spec.tag, COLON) <= 1
         /\ ~HasNonAlphabetic(spec.library)

\* The characters tokenize() records as the last delimiter.
RecordedDelimiters ==
  {OPENING_GROUP, CLOSING_GROUP, OPENING_COLUMN, CLOSING_COLUMN, COMMA}

\* The 0-based index of the last recorded delimiter of hed before index k,
\* or -1 when there is none.
PreviousDelimiterIndex(hed, k) ==
  LET before == {j \in 0..(k - 1) : CharAt(hed, j) \in RecordedDelimiters}
  IN  IF before = {} THEN -1
      ELSE CHOOSE j \in before : \A other \in before : other <= j

\* The comma at index k has an opening parenthesis, a comma or the start of
\* the string as its previous delimiter, and only blanks in between.
EmptyBeforeComma(hed, k) ==
  LET j == PreviousDelimiterIndex(hed, k)
  IN  /\ j >= 0 => CharAt(hed, j) \in {OPENING_GROUP, COMMA}
      /\ \A between \in (j + 1)..(k - 1) : IsSpace(CharAt(hed, between))

\* C11: a comma whose previous delimiter is '(' or ',' or that has no previous
\* delimiter, with nothing but blanks in between, makes tokenization fail with
\* emptyTagFound reported at the index of that comma; a comma at the start of
\* the string fails with emptyTagFound at index 0.
C11_EmptyTagAtComma ==
  [][(AtCharacter(COMMA) /\ EmptyBeforeComma(hedString, i)) =>
       /\ issues' = <<Issue("emptyTagFound", i)>>
       /\ pc' = "tokenized"
       /\ tokenized' = [tagSpecs |-> <<>>, groupBounds |-> NULL,
                        issues |-> <<Issue("emptyTagFound", i)>>]]_vars

\* Tokenization has failed with emptyTagFound at a comma that follows an
\* opening parenthesis and blanks.
C11_Witness ==
  /\ pc = "tokenized"
  /\ i >= 3
  /\ issues = <<Issue("emptyTagFound", i - 1)>>
  /\ CharAt(hedString, i - 1) = COMMA
  /\ CharAt(hedString, i - 2) = BLANK
  /\ CharAt(hedString, PreviousDelimiterIndex(hedString, i - 1))
       = OPENING_GROUP

\* The number of opening parentheses less the number of closing parentheses
\* among the first k characters of hed.
OpenBalance(hed, k) ==
  Cardinality({j \in 0..(k - 1) : CharAt(hed, j) = OPENING_GROUP})
    - Cardinality({j \in 0..(k - 1) : CharAt(hed, j) = CLOSING_GROUP})

\* C12: a ')' met while no group is open (groupDepth = 0, as many ')' as '('
\* before it) makes tokenization fail with unopenedParenthesis at the index of
\* that ')' without popping any stack; groupDepth is never negative in any
\* reachable tokenizer state.
C12_UnopenedParenthesis ==
  /\ [](state.groupDepth >= 0)
  /\ [](pc = "scan" => state.groupDepth = OpenBalance(hedString, i))
  /\ [][(AtCharacter(CLOSING_GROUP) /\ OpenBalance(hedString, i) = 0) =>
          /\ issues' = <<Issue("unopenedParenthesis", i)>>
          /\ pc' = "tokenized"
          /\ state'.groupDepth = 0
          /\ state'.currentGroupStack = state.currentGroupStack
          /\ state'.parenthesesStack = state.parenthesesStack]_vars

\* Tokenization has failed at a ')' that follows a group that was closed.
C12_Witness ==
  /\ pc = "tokenized"
  /\ i >= 3
  /\ issues = <<Issue("unopenedParenthesis", i - 1)>>
  /\ OpenBalance(hedString, i - 1) = 0
  /\ \E j \in 0..(i - 2) : CharAt(hedString, j) = CLOSING_GROUP

----------------------------------------------------------------------------
(* Properties of the DefinitionManager, checked under DefSpec *)

\* The issues with a code in a list of issues.
IssuesWithCode(list, code) == SelectSeq(list, LAMBDA issue : issue.code = code)

\* Two definitions have equal normalized contents and equal placeholder
\* values.
SameContentsAndPlaceholder(ours, theirs) ==
  /\ contentsNormalized(ours) = contentsNormalized(theirs)
  /\ ours.defTag.splitValue = theirs.defTag.splitValue

\* C13: after any sequence of addDefinition calls each lower-cased name maps
\* to the first definition registered under it and is never replaced or
\* removed; a later definition for a registered name is accepted with no issue
\* when its normalized contents and placeholder value equal the stored one's,
\* and otherwise yields exactly one conflictingDefinitions issue, leaving the
\* registry unchanged.
C13_FirstDefinitionKept ==
  [][/\ \A name \in DOMAIN definitions :
          name \in DOMAIN definitions' /\ definitions'[name] = definitions[name]
     /\ called'.op = "addDefinition" =>
          LET lowerName == ToLowerCase(called'.arg.name)
          IN  IF lowerName \notin DOMAIN definitions
                THEN /\ definitions' = definitions @@ (lowerName :> called'.arg)
                     /\ called'.result.issues = <<>>
              ELSE /\ definitions' = definitions
                   /\ IF SameContentsAndPlaceholder(definitions[lowerName],
                                                    called'.arg)
                        THEN called'.result.issues = <<>>
                        ELSE called'.result.issues
                               = <<generateIssue("conflictingDefinitions")>>]_vars

\* The tag refers to a definition of the registry with the tag's placeholder
\* shape.
Registered(tag) ==
  /\ ToLowerCase(tag.value) \in DOMAIN definitions
  /\ Truthy(definitions[ToLowerCase(tag.value)].defTag.splitValue)
       = Truthy(tag.splitValue)

\* C14: definition names are case-insensitive throughout the registry: a
\* second definition whose name differs from a registered one only in letter
\* case and whose normalized contents are equal is accepted without issue, and
\* a Def or Def-expand reference finds the registered definition whatever the
\* letter case of the name it uses.
C14_NamesIgnoreCase ==
  /\ [][(/\ called'.op = "addDefinition"
         /\ ToLowerCase(called'.arg.name) \in DOMAIN definitions
         /\ contentsNormalized(definitions[ToLowerCase(called'.arg.name)])
              = contentsNormalized(called'.arg))
          => called'.result.issues = <<>>]_vars
  /\ [][(/\ called'.op = "findDefinition"
         /\ schemaTagName(called'.arg) \in {"Def", "Def-expand"}
         /\ Registered(called'.arg))
          => called'.result
               = Found(definitions[ToLowerCase(called'.arg.value)], <<>>)]_vars

\* The issue that reports a definition as missing for the tag.
MissingCode(tag) ==
  IF schemaTagName(tag) = "Def" THEN "missingDefinitionForDef"
  ELSE "missingDefinitionForDefExpand"

MissingCodes == {"missingDefinitionForDef", "missingDefinitionForDefExpand"}

\* The list of issues reports exactly one missing definition, for the tag.
ReportsMissing(list, tag) ==
  /\ Len(IssuesWithCode(list, MissingCode(tag))) = 1
  /\ \A k \in 1..Len(list) : list[k].code \in MissingCodes => list[k].code = MissingCode(tag)

NormalizedText(text) ==
  With(splitHedString(text), LAMBDA parsed :
    IF splitFailed(parsed) THEN NULL
    ELSE getNormalized(parsed.parsedTags))

\* The text with its first pattern character replaced by the value.
Substituted(text, pattern, value) ==
  IF ~Includes(text, pattern) THEN text
  ELSE Slice(text, 0, IndexOf(text, pattern)) \o value
         \o SliceFrom(text, IndexOf(text, pattern) + 1)

\* The normalized contents of the definition the tag refers to, with the
\* tag's placeholder value in the place of the '#' of the contents.
SubstitutedContents(tag) ==
  LET definition == definitions[ToLowerCase(tag.value)]
  IN  IF definition.defContents = NULL THEN Normal(<<>>)
      ELSE IF ~Truthy(definition.defTag.splitValue)
        THEN normalized(definition.defContents)
      ELSE NormalizedText(Substituted(definition.defContents.originalTag,
                                      PLACEHOLDER, tag.splitValue))

\* The normalized form of the inline contents of a Def-expand group.
InlineContents(group) ==
  IF Len(topGroups(group)) = 0 THEN Normal(<<>>)
  ELSE normalized(topGroups(group)[1])

\* The Def-expand groups of a parsed string, at every depth.
DefExpandGroups(parsed) ==
  SelectSeq(Flat([k \in 1..Len(tagGroups(parsed)) |->
                    subParsedGroupIterator(tagGroups(parsed)[k])]),
            LAMBDA group : Len(defExpandTags(group)) > 0)

\* C16: validateDefExpands reports defExpandContentsInvalid for a Def-expand
\* group exactly when its definition resolves without issue and the normalized
\* form of the group's inline contents (the empty string when it has none)
\* differs from the normalized definition contents obtained by substituting
\* the tag's placeholder value for the single '#' of the stored contents.
C16_DefExpandContents ==
  [][called'.op = "validateDefExpands" =>
       Len(IssuesWithCode(called'.result.issues, "defExpandContentsInvalid"))
         = Len(SelectSeq(DefExpandGroups(called'.arg),
                 LAMBDA group :
                   /\ evaluateTag(definitions, defExpandTags(group)[1],
                                  called'.placeholderAllowed).issues = <<>>
                   /\ InlineContents(group)
                        # SubstitutedContents(defExpandTags(group)[1])))]_vars

\* The number of '#' characters in the contents subgroup of a group.
ContentsPlaceholders(group) ==
  IF Len(topGroups(group)) = 0 THEN 0
  ELSE CountChar(topGroups(group)[1].originalTag, PLACEHOLDER)

\* The group is a definition: its sole top-level tag is a Definition tag and
\* its contents hold one '#' if the tag has a second-level value, none if not.
WellFormedDefinition(group) ==
  /\ Len(topTags(group)) = 1
  /\ schemaTagName(topTags(group)[1]) = "Definition"
  /\ ContentsPlaceholders(group)
       = (IF Truthy(topTags(group)[1].splitValue) THEN 1 ELSE 0)

\* C17: createDefinitionFromGroup yields a Definition only if the group's sole
\* top-level tag is a Definition tag and the number of '#' characters in its
\* contents subgroup is exactly 1 when the Definition tag carries a
\* second-level value and exactly 0 otherwise (0 also when there is no
\* contents subgroup); in every other case it yields null with an
\* invalidDefinition or invalidPlaceholderInDefinition issue.
C17_DefinitionOnlyIfWellFormed ==
  [][called'.op = "createDefinitionFromGroup" =>
       IF WellFormedDefinition(called'.arg)
         THEN /\ called'.result.definition # NULL
              /\ called'.result.definition.defGroup = called'.arg
              /\ called'.result.errors = <<>>
         ELSE /\ called'.result.definition = NULL
              /\ Len(called'.result.errors) = 1
              /\ called'.result.errors[1].code
                   \in {"invalidDefinition", "invalidPlaceholderInDefinition"}]_vars

\* createDefinitionFromGroup has refused a group whose sole tag is a
\* Definition tag with a second-level value and whose contents hold no '#'.
C17_Witness ==
  /\ called.op = "createDefinitionFromGroup"
  /\ called.result.definition = NULL
  /\ called.result.errors = <<generateIssue("invalidPlaceholderInDefinition")>>
  /\ Len(topTags(called.arg)) = 1
  /\ Truthy(topTags(called.arg)[1].splitValue)
  /\ Len(topGroups(called.arg)) = 1
  /\ ContentsPlaceholders(called.arg) = 0

----------------------------------------------------------------------------
(* Properties of the EventManager, checked under EventSpec *)

\* The events of the list before event k that are for the definition of
\* event k.
EarlierOfDefinition(eventList, k) ==
  {j \in 1..(k - 1) : eventList[j].defName = eventList[k].defName}

\* An Onset for the definition of event k is still active at event k: there
\* is an earlier Onset for it with no Offset for it between the two.
OnsetActive(eventList, k) ==
  \E j \in EarlierOfDefinition(eventList, k) :
    /\ eventList[j].type = "Onset"
    /\ \A m \in EarlierOfDefinition(eventList, k) :
         m > j => eventList[m].type # "Offset"

\* Event k is an Inset or an Offset with no Onset still active.
InactiveAt(eventList, k) ==
  /\ eventList[k].type \in {"Inset", "Offset"}
  /\ ~OnsetActive(eventList, k)

\* Event k is within TOLERANCE of an earlier event for its definition.
SimultaneousAt(eventList, k) ==
  \E j \in EarlierOfDefinition(eventList, k) :
    Abs(eventList[k].onset - eventList[j].onset) < TOLERANCE

\* Event k is the first event of the list at which an issue is due.
FirstDue(eventList, k) ==
  \A j \in 1..(k - 1) :
    ~InactiveAt(eventList, j) /\ ~SimultaneousAt(eventList, j)

\* The codes of a list of issues.
Codes(list) == [k \in 1..Len(list) |-> list[k].code]

\* C18: validate, walking an onset-sorted event list, reports inactiveOnset
\* whenever an Inset or Offset event occurs for a definition that has no
\* Onset still active at that point: no earlier Onset for that definition
\* exists, or the latest one has already been ended by an Offset.  (The walk
\* stops at the first issue, so the event is the first at which an issue is
\* due, and it is not within TOLERANCE of an earlier event of its definition,
\* which is the other issue.)
C18_InactiveOnset ==
  pc = "validated" =>
    \A k \in 1..Len(called.arg.events) :
      /\ InactiveAt(called.arg.events, k)
      /\ ~SimultaneousAt(called.arg.events, k)
      /\ FirstDue(called.arg.events, k)
      => Codes(called.result.issues) = <<"inactiveOnset">>

\* The pairs of events of the list for one definition whose onsets differ by
\* less than TOLERANCE.
SimultaneousPairs(eventList) ==
  {pair \in (1..Len(eventList)) \X (1..Len(eventList)) :
     /\ pair[1] < pair[2]
     /\ eventList[pair[1]].defName = eventList[pair[2]].defName
     /\ Abs(eventList[pair[1]].onset - eventList[pair[2]].onset) < TOLERANCE}

\* C19: validate reports simultaneousDuplicateEvents whenever two events of
\* the list for the same definition have effective onsets that differ by less
\* than TOLERANCE, whatever their kinds (unless it has stopped at an
\* inactiveOnset issue, which it reports instead), and never reports it for
\* two events whose onsets differ by TOLERANCE or more: a list it reports it
\* for has two events for one definition less than TOLERANCE apart.
C19_SimultaneousDuplicates ==
  pc = "validated" =>
    /\ SimultaneousPairs(called.arg.events) # {}
         => Codes(called.result.issues)
              \in {<<"simultaneousDuplicateEvents">>, <<"inactiveOnset">>}
    /\ Codes(called.result.issues) = <<"simultaneousDuplicateEvents">>
         => SimultaneousPairs(called.arg.events) # {}

\* The groups of an element that make an event: those with an Onset, an Inset
\* or an Offset among their top tags.
TemporalGroups(element) ==
  IF element.parsedHedString = NULL THEN <<>>
  ELSE SelectSeq(tagGroups(element.parsedHedString),
         LAMBDA group :
           \E k \in 1..Len(topTags(group)) :
             schemaTagName(topTags(group)[k]) \in {"Onset", "Inset", "Offset"})

\* The effective onset of a group of an element: the onset of the row, plus
\* the value of the Delay tag of the group if it has one.
EffectiveOnset(element, group) ==
  LET delays == SelectSeq(topTags(group),
                          LAMBDA tag : schemaTagName(tag) = "Delay")
  IN  Number(element.onset).value
        + (IF delays = <<>> THEN 0 ELSE Number(delays[1].value).value)

\* Where an event comes from: its row and the place of its group in the row.
Origin(event) == <<event.tsvLine, event.group.originalBounds[1]>>

\* The event a comes before the event b in the input: row order, then group
\* order within a row.
InputBefore(a, b) ==
  \/ a.tsvLine < b.tsvLine
  \/ /\ a.tsvLine = b.tsvLine
     /\ a.group.originalBounds[1] < b.group.originalBounds[1]

\* C20: parseEvents returns the events in non-decreasing order of effective
\* onset (the row's onset plus the numeric value of the group's Delay tag, if
\* any), and events with equal effective onset keep their input order (row
\* order, then group order within a row).  The events are those of the
\* temporal groups of the rows, one for each.
C20_SortedByEffectiveOnset ==
  (pc = "parsed" /\ called.result.eventList # NULL) =>
    LET elements == called.arg
        eventList == called.result.eventList.events
    IN  /\ \A k \in 1..Len(eventList) :
             /\ eventList[k].tsvLine - 1 \in 1..Len(elements)
             /\ eventList[k].onset
                  = EffectiveOnset(elements[eventList[k].tsvLine - 1],
                                   eventList[k].group)
        /\ \A j, k \in 1..Len(eventList) :
             j < k =>
               /\ eventList[j].onset <= eventList[k].onset
               /\ eventList[j].onset = eventList[k].onset
                    => InputBefore(eventList[j], eventList[k])
        /\ {Origin(eventList[k]) : k \in 1..Len(eventList)}
             = UNION {{<<elements[e].tsvLine, group.originalBounds[1]>> :
                         group \in {TemporalGroups(elements[e])[g] :
                                      g \in 1..Len(TemporalGroups(elements[e]))}} :
                        e \in 1..Len(elements)}

\* parseEvents has returned three events: a delayed event of the first row
\* behind an event of a later row, and two events of one row at one time.
C20_Witness ==
  /\ pc = "parsed"
  /\ called.result.eventList # NULL
  /\ LET eventList == called.result.eventList.events
     IN  /\ Len(eventList) = 3
         /\ \E j, k \in 1..Len(eventList) :
              /\ j < k
              /\ eventList[j].tsvLine > eventList[k].tsvLine
              /\ hasReservedTag(eventList[k].group, "Delay")
         /\ \E j \in 1..(Len(eventList) - 1) :
              /\ eventList[j].onset = eventList[j + 1].onset
              /\ eventList[j].tsvLine = eventList[j + 1].tsvLine

----------------------------------------------------------------------------
(* Properties of the DefinitionChecker and the ReservedChecker, checked    *)
(* under CheckSpec                                                          *)

\* The tags of a list of parsed items with their depths: a tag at the top
\* level of the string has the depth of the list, a tag of a group one more
\* than the group.
RECURSIVE TagDepths(_, _)
TagDepths(items, depth) ==
  Flat([k \in 1..Len(items) |->
          IF items[k].type = "tag" THEN <<[tag |-> items[k], depth |-> depth]>>
          ELSE IF items[k].type = "group"
            THEN TagDepths(items[k].tags, depth + 1)
          ELSE <<>>])

\* The groups of a list of parsed items, at any depth.
RECURSIVE GroupsWithin(_)
GroupsWithin(items) ==
  Flat([k \in 1..Len(items) |->
          IF items[k].type = "group"
            THEN <<items[k]>> \o GroupsWithin(items[k].tags)
          ELSE <<>>])

\* A Definition group or a Def-expand group that holds another Definition,
\* Def or Def-expand tag at any depth inside it.
NestsDefinition(group) ==
  \E k \in 1..Len(group.tags) :
    /\ group.tags[k].type = "tag"
    /\ schemaTagName(group.tags[k]) \in {"Definition", "Def-expand"}
    /\ \E j \in 1..Len(TagDepths(group.tags, 1)) :
         /\ TagDepths(group.tags, 1)[j].tag # group.tags[k]
         /\ schemaTagName(TagDepths(group.tags, 1)[j].tag)
              \in {"Definition", "Def", "Def-expand"}

\* C21: DefinitionChecker.check rejects every Definition group or Def-expand
\* group that contains any other Definition, Def or Def-expand tag at any
\* depth inside it (with invalidDefinitionForbidden, or with the issue of
\* the pass that comes before it), so no string with such nesting passes the
\* definition syntax check.
C21_NoNestedDefinitions ==
  called.op = "check" =>
    ((\E k \in 1..Len(GroupsWithin(called.arg.parseTree)) :
        NestsDefinition(GroupsWithin(called.arg.parseTree)[k]))
       => called.result.issues # <<>>)

\* A tag that requires top-level-group placement: by the schema attribute or
\* by the requirement of the reserved tag.
RequiresTopLevelGroup(tag) ==
  \/ "topLevelTagGroup" \in SchemaTag(schemaTagName(tag)).attributes
  \/ /\ schemaTagName(tag) \in DOMAIN reservedMap
     /\ reservedMap[schemaTagName(tag)].topLevelTagGroup

\* The tags of a string that require top-level-group placement and are bare
\* at the top level of the string.
PlacedBare(parsed) ==
  SelectSeq(TagDepths(parsed.parseTree, 0),
            LAMBDA placed : RequiresTopLevelGroup(placed.tag)
                            /\ placed.depth = 0)

\* Those that are nested deeper than directly inside a top-level group.
PlacedDeeper(parsed) ==
  SelectSeq(TagDepths(parsed.parseTree, 0),
            LAMBDA placed : RequiresTopLevelGroup(placed.tag)
                            /\ placed.depth > 1)

\* C22: a tag that requires top-level-group placement is accepted only
\* directly inside a top-level group: nested deeper it is rejected with
\* invalidTopLevelTagGroupTag whether fullValidation is true or false, and
\* bare at the top level of the string it is rejected when fullValidation is
\* true and tolerated when fullValidation is false.  checkTagGroupLevels
\* reports one issue for each tag that is rejected, and checkHedString
\* accepts no string that has one.
C22_TopLevelGroupPlacement ==
  LET rejected ==
        Len(PlacedDeeper(called.arg))
          + (IF called.placeholderAllowed
               THEN Len(PlacedBare(called.arg)) ELSE 0)
  IN  /\ called.op = "checkTagGroupLevels" =>
           Len(IssuesWithCode(called.result.issues,
                              "invalidTopLevelTagGroupTag")) = rejected
      /\ called.op = "checkHedString" =>
           (rejected > 0 => called.result.issues # <<>>)

\* checkTagGroupLevels without full validation has tolerated a bare tag and
\* has rejected a nested one.
C22_Witness ==
  /\ called.op = "checkTagGroupLevels"
  /\ Len(PlacedBare(called.arg)) = 1
  /\ Len(PlacedDeeper(called.arg)) = 1
  /\ ~called.placeholderAllowed
  /\ Codes(called.result.issues) = <<"invalidTopLevelTagGroupTag">>

\* The reserved tags directly in a group.
ReservedIn(group) ==
  SelectSeq(group.tags,
            LAMBDA item : item.type = "tag"
                          /\ schemaTagName(item) \in DOMAIN reservedMap)

\* The subgroups of a group.
Subgroups(group) == SelectSeq(group.tags, LAMBDA item : item.type = "group")

\* One, when the group has a Def-expand subgroup and a tag that requires a
\* definition.
DefinitionSlot(group) ==
  IF /\ \E k \in 1..Len(Subgroups(group)) :
          \E j \in 1..Len(Subgroups(group)[k].tags) :
            /\ Subgroups(group)[k].tags[j].type = "tag"
            /\ schemaTagName(Subgroups(group)[k].tags[j]) = "Def-expand"
     /\ \E k \in 1..Len(ReservedIn(group)) :
          reservedMap[schemaTagName(ReservedIn(group)[k])].requiresDef
    THEN 1 ELSE 0

\* A number of subgroups is within the limits of a reserved tag; with no
\* declared limit any number is.
AtMost(count, tag) ==
  \/ reservedMap[schemaTagName(tag)].maxNonDefSubgroups = NO_LIMIT
  \/ count <= reservedMap[schemaTagName(tag)].maxNonDefSubgroups
AtLeast(count, tag) ==
  \/ reservedMap[schemaTagName(tag)].minNonDefSubgroups = NO_LIMIT
  \/ count >= reservedMap[schemaTagName(tag)].minNonDefSubgroups

\* The other requirements of the reserved tags of a group are met: the
\* number of definitions, and the tags that are allowed beside them.
OtherRequirementsMet(group) ==
  /\ ~(Len(requiresDefTag(group)) > 0 /\ defCount(group) # 1)
  /\ \A k \in 1..Len(ReservedIn(group)) :
       checkAllowedTags(group, ReservedIn(group)[k],
                        reservedMap[schemaTagName(ReservedIn(group)[k])])
         = <<>>

\* The top-level groups of a string.
TopLevelGroups(parsed) ==
  SelectSeq(parsed.parseTree, LAMBDA item : item.type = "group")

\* C26: for every top-level group and every reserved tag directly in it,
\* ReservedChecker reports invalidNumberOfSubgroups unless the group's number
\* of subgroups, reduced by one when the group has a Def-expand subgroup and
\* a tag that requires a definition, is at most the tag's maxNonDefSubgroups
\* and at least its minNonDefSubgroups; with no declared maximum any number
\* of subgroups is allowed.  (Stated for the strings whose groups meet the
\* other requirements of their reserved tags, which are checked first; one
\* issue is reported for a group.)
C26_SubgroupCounts ==
  (/\ called.op = "checkTopGroupRequirements"
   /\ \A k \in 1..Len(TopLevelGroups(called.arg)) :
        OtherRequirementsMet(TopLevelGroups(called.arg)[k])) =>
    Len(IssuesWithCode(called.result.issues, "invalidNumberOfSubgroups"))
      = Len(SelectSeq(TopLevelGroups(called.arg),
              LAMBDA group :
                \E k \in 1..Len(ReservedIn(group)) :
                  ~(/\ AtMost(Len(Subgroups(group)) - DefinitionSlot(group),
                              ReservedIn(group)[k])
                    /\ AtLeast(Len(Subgroups(group)) - DefinitionSlot(group),
                               ReservedIn(group)[k]))))

\* C27: each structural check pass over one parsed string
\* (DefinitionChecker.check and ReservedChecker.checkHedString) stops at the
\* first violation it finds and returns exactly one issue for it; no pass
\* returns two or more issues for the same string.
C27_OneIssuePerPass ==
  called.op \in {"check", "checkHedString"} =>
    Len(called.result.issues) <= 1

----------------------------------------------------------------------------
(* Properties of tag resolution, checked under ResolveSpec *)

\* The 0-based indices of the levels of a tag path that match no schema tag.
Unmatched(tagSpec) ==
  {k \in 0..(Len(tagLevels(tagSpec)) - 1) :
     getSchemaTag(tagSpec, k) = UndefinedEntry}

\* The first level that matches no schema tag.
FirstUnmatched(tagSpec) ==
  CHOOSE k \in Unmatched(tagSpec) : \A j \in Unmatched(tagSpec) : k <= j

\* The tag the level before index k has matched.
LastMatched(tagSpec, k) == getSchemaTag(tagSpec, k - 1)

\* The walk reaches the first level that matches no schema tag: every level
\* before it is the child of the level before, and none takes a value.
ReachesExtension(tagSpec) ==
  /\ Unmatched(tagSpec) # {}
  /\ \A j \in 0..(FirstUnmatched(tagSpec) - 1) :
       /\ ~SchemaTag(getSchemaTag(tagSpec, j).name).takesValue
       /\ j > 0 =>
            SchemaTag(getSchemaTag(tagSpec, j).name).parent
              = getSchemaTag(tagSpec, j - 1).name

\* The last matched tag allows extensions and is no reserved no-extension
\* tag.
ExtensionAllowed(tagSpec, k) ==
  /\ hasAttribute(LastMatched(tagSpec, k), "extensionAllowed")
  /\ LastMatched(tagSpec, k).name \notin noExtensionTags

\* Level k and every level after it is in the name class.
ExtensionNamed(tagSpec, k) ==
  \A j \in k..(Len(tagLevels(tagSpec)) - 1) :
    validateValue("nameClass", tagLevels(tagSpec)[j + 1])

\* No level after level k names a schema tag.
NoLaterSchemaTag(tagSpec, k) ==
  \A j \in (k + 1)..(Len(tagLevels(tagSpec)) - 1) : j \in Unmatched(tagSpec)

\* The codes of the conditions an extension at level k > 0 fails.
ExtensionCodes(tagSpec, k) ==
  (IF ExtensionAllowed(tagSpec, k) /\ ExtensionNamed(tagSpec, k)
     THEN {} ELSE {"invalidExtension"})
    \cup (IF NoLaterSchemaTag(tagSpec, k) THEN {} ELSE {"invalidParentNode"})

NoValueClass(tag) == Len(SchemaTag(tag.schemaTag.name).valueClasses) = 0

\* A curly brace or a comma is in the value.
HasBraceOrComma(value) ==
  \E k \in 1..Len(value) :
    value[k] \in {OPENING_COLUMN, CLOSING_COLUMN, COMMA}

\* C24: for a tag that takes a value and declares no value class, checkValue
\* accepts a value exactly when the value is not empty and holds no curly
\* brace and no comma, and a tag of such a schema tag that has been
\* constructed never carries an empty value.
C24_DefaultValueRule ==
  /\ (called.op = "checkValue" /\ NoValueClass(called.arg.tag))
       => (called.result.accepted
             <=> (Len(called.arg.value) > 0
                    /\ ~HasBraceOrComma(called.arg.value)))
  /\ (called.op = "ParsedHedTag" /\ ~IsThrown(called.result))
       => ((called.result.schemaTag.isValueTag /\ NoValueClass(called.result))
             => Len(called.result.value) > 0)

----------------------------------------------------------------------------
(* Properties of the loop of validate, checked under WalkSpec *)

\* The event the loop of validate is at.
WalkedEvent == called.arg.events[called.result.index]

\* The loop is at an event of a definition that has an active event the
\* event is not simultaneous with.
AtLaterEvent ==
  /\ pc = "walking"
  /\ called.result.index <= Len(called.arg.events)
  /\ WalkedEvent.defName \in DOMAIN called.result.currentMap
  /\ Abs(called.result.currentMap[WalkedEvent.defName].onset
           - WalkedEvent.onset) >= TOLERANCE

\* The active event of the definition of the event the loop is at.
ActiveEvent == called.result.currentMap[WalkedEvent.defName]

\* C25: a step of the loop of validate at a non-simultaneous event of a
\* definition that has an active event replaces the active event by the
\* event when the event is an Onset, or is an Inset or an Offset and the
\* active event is not an Offset, and else leaves it; no step changes the
\* active event of another definition.
C25_ActiveEventReplacement ==
  [][(pc = "walking" /\ called.result.index <= Len(called.arg.events))
       => /\ \A name \in DOMAIN called.result.currentMap \ {WalkedEvent.defName} :
               /\ name \in DOMAIN called'.result.currentMap
               /\ called'.result.currentMap[name]
                    = called.result.currentMap[name]
          /\ DOMAIN called'.result.currentMap
               \subseteq DOMAIN called.result.currentMap
                           \cup {WalkedEvent.defName}
          /\ AtLaterEvent
               => called'.result.currentMap[WalkedEvent.defName]
                    = IF WalkedEvent.type = "Onset" THEN WalkedEvent
                      ELSE IF WalkedEvent.type \in {"Inset", "Offset"}
                              /\ ActiveEvent.type # "Offset"
                        THEN WalkedEvent
                      ELSE ActiveEvent]_vars

\* The loop has gone through an Onset, an Offset that has replaced it, and an
\* Inset that has not replaced the Offset.
C25_Witness ==
  /\ pc = "walking"
  /\ called.result.index = 4
  /\ called.arg.events[1].type = "Onset"
  /\ called.arg.events[2].type = "Offset"
  /\ called.arg.events[3].type = "Inset"
  /\ called.arg.events[3].defName = called.arg.events[2].defName
  /\ called.result.currentMap[called.arg.events[3].defName]
       = called.arg.events[2]

----------------------------------------------------------------------------
(* Properties of the bounds and the stacks of the tokenizer, checked under  *)
(* TokSpec                                                                  *)

\* The GroupSpecs below a GroupSpec.
RECURSIVE GroupSpecsBelow(_)
GroupSpecsBelow(groupSpec) ==
  UNION {{groupSpec.children[k]} \cup GroupSpecsBelow(groupSpec.children[k]) :
           k \in 1..Len(groupSpec.children)}

\* The half-open span of the input a token's bounds stand for.
SpanOf(spec) == Slice(hedString, spec.bounds[1], spec.bounds[2])

\* The bounds lie in the input and the span is not empty.
BoundsInInput(spec) ==
  /\ 0 <= spec.bounds[1]
  /\ spec.bounds[1] < spec.bounds[2]
  /\ spec.bounds[2] <= Len(hedString)

\* The span runs from an opening parenthesis through the closing parenthesis
\* that matches it.
SpansGroup(spec) ==
  /\ CharAt(hedString, spec.bounds[1]) = OPENING_GROUP
  /\ CharAt(hedString, spec.bounds[2] - 1) = CLOSING_GROUP
  /\ OpenBalance(hedString, spec.bounds[2])
       = OpenBalance(hedString, spec.bounds[1])
  /\ \A k \in (spec.bounds[1] + 1)..(spec.bounds[2] - 1) :
       OpenBalance(hedString, k) > OpenBalance(hedString, spec.bounds[1])

\* The span runs from an opening curly brace through the closing curly brace
\* of the column splice.
SpansSplice(spec) ==
  /\ CharAt(hedString, spec.bounds[1]) = OPENING_COLUMN
  /\ CharAt(hedString, spec.bounds[2] - 1) = CLOSING_COLUMN
  /\ Trim(Slice(hedString, spec.bounds[1] + 1, spec.bounds[2] - 1))
       = spec.columnName

\* The span of a TagSpec is its trimmed tag text.
TagSpans ==
  \A spec \in AllSpecs(tokenized.tagSpecs) :
    spec.type = "tag" =>
      BoundsInInput(spec) /\ SpanOf(spec) = spec.tag /\ Trim(spec.tag) = spec.tag

\* The span of a GroupSpec is its group.
GroupSpans ==
  \A spec \in GroupSpecsBelow(tokenized.groupBounds) :
    BoundsInInput(spec) /\ SpansGroup(spec)

\* The span of a ColumnSpliceSpec is its column splice.
SpliceSpans ==
  \A spec \in AllSpecs(tokenized.tagSpecs) :
    spec.type = "splice" => BoundsInInput(spec) /\ SpansSplice(spec)

\* C28: for every token of a successful tokenization the half-open span
\* [bounds[0], bounds[1]) of the input is the token's source text: the
\* trimmed tag text for a TagSpec, the text from '(' through the matching ')'
\* for a GroupSpec, the text from '{' through '}' for a ColumnSpliceSpec; and
\* 0 <= bounds[0] < bounds[1] <= the length of the input.
C28_BoundsSpanSource ==
  TokenizeSucceeded => TagSpans /\ GroupSpans /\ SpliceSpans

\* The nested arrays of a list of the token forest, in order.
NestedArrays(items) == SelectSeq(items, LAMBDA item : item.type = "array")

\* The tokens of a nested array lie inside the parentheses of a GroupSpec.
Inside(items, groupSpec) ==
  \A spec \in AllSpecs(items) :
    /\ groupSpec.bounds[1] < spec.bounds[1]
    /\ spec.bounds[2] < groupSpec.bounds[2]

\* A list of the token forest and the children of a GroupSpec have the same
\* shape: as many nested arrays as children, the k-th nested array holding
\* the tokens of the k-th child, and so on below them.
RECURSIVE SameShape(_, _)
SameShape(items, groupSpecs) ==
  /\ Len(NestedArrays(items)) = Len(groupSpecs)
  /\ \A k \in 1..Len(groupSpecs) :
       /\ Inside(NestedArrays(items)[k].items, groupSpecs[k])
       /\ SameShape(NestedArrays(items)[k].items, groupSpecs[k].children)

----------------------------------------------------------------------------
(* Properties of the creation of definitions, checked under CreateSpec *)

\* A string with no tag and no group: the empty string, or column splices
\* only.
NoTagGroupAtAll(hed) ==
  /\ ~splitFailed(splitHedString(hed))
  /\ \A k \in 1..Len(splitHedString(hed).parsedTags) :
       splitHedString(hed).parsedTags[k].type = "splice"

\* C30: createDefinition and createDefinitions never throw; createDefinition
\* returns a Definition with no error, or null with at least one error; a
\* string that parses to no tag group at all yields null with an
\* invalidDefinition issue; createDefinitions returns a list of definitions
\* and a list of issues.
C30_DefinitionOrErrors ==
  /\ called.op \in {"createDefinition", "createDefinitions"} =>
       ~IsThrown(called.result)
  /\ (called.op = "createDefinition" /\ ~IsThrown(called.result)) =>
       /\ called.result.definition # NULL <=> called.result.errors = <<>>
       /\ NoTagGroupAtAll(called.arg) =>
            /\ called.result.definition = NULL
            /\ IssuesWithCode(called.result.errors, "invalidDefinition") # <<>>

====
